---- MODULE Spec2Model ----
(***************************************************************************)
(* A model of enhanced_dash_server.py: the two-tier cache (CacheManager),  *)
(* the ranking engine (FuzzySearchEngine) and the search coordinator       *)
(* (DashMCPServer.search_docset / get_available_docsets), the call_tool     *)
(* handler, get_relevant_documentation and the shutdown path of amain.     *)
(*                                                                         *)
(* Conventions.  A Python Optional is a sequence of length 0 (None) or 1   *)
(* (the value).  A Python str is a sequence of symbols, so that lower(),   *)
(* startswith, "in" and f-string concatenation are computed, not assumed.  *)
(* A Python dict is a function whose DOMAIN is the set of keys present.    *)
(***************************************************************************)
EXTENDS Integers, Sequences, FiniteSets, TLC

VARIABLES
    clock,          \* time.time()
    memory_cache,   \* CacheManager.memory_cache: key -> <<data, timestamp>>
    disk_cache,     \* files cache_dir/<key>.json: key -> Torn or [data, timestamp]
    task,           \* CacheSpec: each coroutine's position inside get / set
    written,        \* CacheSpec: every <<key, data, timestamp>> handed to set;
                    \* SearchSpec: cache key -> parameters of the search that wrote it
    last,           \* the call that completed in the last step and what it returned
    restarts,       \* how many times the process was restarted
    calls,          \* SearchSpec: how many tool calls were made
    returned,       \* SearchSpec: per search parameters, what the last call returned
    fs,             \* the docset bundles on disk
    input,          \* RankSpec / FuzzySpec: the arguments of the call
    output          \* RankSpec / FuzzySpec: the returned list; CacheSpec and
                    \* ShutdownSpec: what was logged

vars == <<clock, memory_cache, disk_cache, task, written, last, restarts, calls, returned,
          fs, input, output>>

----------------------------------------------------------------------------
(* Optional values and Python truthiness *)

None == <<>>

Some(v) == <<v>>

\* the outcome of an expression: a value, or an exception raised
Ok(v) == [raised |-> None, val |-> Some(v)]
Raise(class, msg) == [raised |-> Some([class |-> class, msg |-> msg]), val |-> None]

\* isinstance(e, base) for the exception classes raised here
\* (CancelledError and KeyboardInterrupt derive from BaseException only)
IsInstance(class, base) ==
    CASE base = "Exception"  -> class \notin {"CancelledError", "KeyboardInterrupt"}
      [] base = "ValueError" -> class \in {"ValueError", "UnicodeEncodeError", "JSONDecodeError"}
      [] OTHER               -> class = base

\* bool(x) for an Optional list: None and [] are both falsy
Truthy(opt) == opt # None /\ opt[1] # <<>>

----------------------------------------------------------------------------
(* CacheManager *)

cache_ttl == 3600

\* bounds of the clock: time advances in steps of TickStep up to MaxClock
TickStep == 1800
MaxClock == 5400

\* what json.loads finds in a file opened for writing and not yet written
Torn == [torn |-> TRUE]

EmptyDict == [k \in {} |-> None]

DictSet(d, k, v) == [x \in DOMAIN d \cup {k} |-> IF x = k THEN v ELSE d[x]]

DictDel(d, k) == [x \in DOMAIN d \ {k} |-> d[x]]

\* lines 413-418: the memory tier.  hit: the value is served from memory;
\* otherwise mem is the map after the stale entry was deleted
GetMemory(mem, now, key) ==
    IF key \in DOMAIN mem
    THEN IF now - mem[key][2] < cache_ttl
         THEN [hit |-> TRUE, data |-> mem[key][1], ts |-> mem[key][2], mem |-> mem]
         ELSE [hit |-> FALSE, data |-> None, ts |-> 0, mem |-> DictDel(mem, key)]
    ELSE [hit |-> FALSE, data |-> None, ts |-> 0, mem |-> mem]

\* the mutant of PromoteTimestamp: promotion stamps the record with the
\* time of the read
PromoteTimestampNow(rec, now) == now

\* lines 428-431: the timestamp a promoted record carries in memory
PromoteTimestamp(rec, now) == rec.timestamp

\* the mutant of ReadRecord: a torn file is read as a record
ReadRecordLenient(content, now, ioerror) ==
    IF ioerror THEN Raise("OSError", <<"read">>)
    ELSE IF content = Torn THEN Ok(Some([data |-> "torn", timestamp |-> now]))
    ELSE IF "timestamp" \notin DOMAIN content THEN Raise("KeyError", <<"timestamp">>)
    ELSE IF ~(now - content.timestamp < cache_ttl) THEN Ok(None)
    ELSE IF "data" \notin DOMAIN content THEN Raise("KeyError", <<"data">>)
    ELSE Ok(Some(content))

\* lines 425-432: the body of the try, given the file's content at the
\* read.  ioerror: open or read raised; a torn file raises in json.loads; a
\* record without a field raises KeyError where the field is read.  The
\* value is None when the record is stale
ReadRecord(content, now, ioerror) ==
    IF ioerror THEN Raise("OSError", <<"read">>)
    ELSE IF content = Torn THEN Raise("JSONDecodeError", <<"Expecting value">>)
    ELSE IF "timestamp" \notin DOMAIN content THEN Raise("KeyError", <<"timestamp">>)
    ELSE IF ~(now - content.timestamp < cache_ttl) THEN Ok(None)
    ELSE IF "data" \notin DOMAIN content THEN Raise("KeyError", <<"data">>)
    ELSE Ok(Some(content))

\* the mutant of ExceptPass: only I/O errors are swallowed
ExceptPassOSError(r) ==
    IF r.raised # None /\ IsInstance(r.raised[1].class, "OSError") THEN Ok(None) ELSE r

\* lines 433-434: except Exception: pass
ExceptPass(r) ==
    IF r.raised # None /\ IsInstance(r.raised[1].class, "Exception") THEN Ok(None) ELSE r

\* lines 426-436: a fresh record is promoted and returned, anything else
\* gives None.  raised: the exception that leaves get
DiskResult(r, mem, key, now) ==
    IF r.raised # None \/ r.val[1] = None
    THEN [ret |-> None, ts |-> 0, tier |-> "none", mem |-> mem, raised |-> r.raised]
    ELSE [ret |-> Some(r.val[1][1].data), ts |-> r.val[1][1].timestamp, tier |-> "disk",
          mem |-> DictSet(mem, key, <<r.val[1][1].data, PromoteTimestamp(r.val[1][1], now)>>),
          raised |-> None]

\* lines 423-436: the disk tier
GetDisk(mem, content, now, key, ioerror) ==
    DiskResult(ExceptPass(ReadRecord(content, now, ioerror)), mem, key, now)

\* lines 410-436 run without interleaving: what get returns and the map after
CacheGet(mem, disk, now, key, ioerror) ==
    LET m == GetMemory(mem, now, key) IN
    IF m.hit THEN [ret |-> Some(m.data), ts |-> m.ts, tier |-> "memory", mem |-> m.mem,
                   raised |-> None]
    ELSE IF key \in DOMAIN disk
         THEN GetDisk(m.mem, disk[key], now, key, ioerror)
         ELSE [ret |-> None, ts |-> 0, tier |-> "none", mem |-> m.mem, raised |-> None]

\* lines 440-443
SetMemory(mem, now, key, data) == DictSet(mem, key, <<data, now>>)

\* lines 446-451 run without interleaving: the file after the write, or the
\* file as the failure left it (open failed: untouched; write failed: torn)
SetDisk(disk, now, key, data, fail) ==
    CASE fail = "none"  -> DictSet(disk, key, [data |-> data, timestamp |-> now])
      [] fail = "open"  -> disk
      [] fail = "write" -> DictSet(disk, key, Torn)

\* line 449: what the open and the write raise
WriteFile(fail) == IF fail = "none" THEN Ok(None) ELSE Raise("OSError", <<fail>>)

\* lines 450-451: except Exception as e: logger.error(...)
ExceptLog(r) ==
    IF r.raised # None /\ IsInstance(r.raised[1].class, "Exception") THEN Ok(None) ELSE r

----------------------------------------------------------------------------
(* CacheSpec: get and set as coroutines interleaved at their awaits *)

Tasks == {1, 2}
CacheKeys == {"k1", "k2"}
CacheData == {"v1", "v2"}

\* at most MaxWrites distinct set calls and MaxRestarts process restarts
MaxWrites == 2
MaxRestarts == 1

Idle == [pc |-> "idle", key |-> "k1", data |-> "v1", ts |-> 0]

NoCall == [op |-> "none"]

\* lines 450-451: logger.error("Cache write error: %s", e); in CacheSpec
\* output holds the line once it was logged
ErrorLog(log, fail) == IF fail = "none" THEN log ELSE Some("Cache write error")

\* lines 438-443: set up to its first await
SetBegin(t, k, v) ==
    /\ task[t].pc = "idle"
    /\ Cardinality(written) < MaxWrites
    /\ memory_cache' = SetMemory(memory_cache, clock, k, v)
    /\ written' = written \cup {<<k, v, clock>>}
    /\ task' = [task EXCEPT ![t] = [pc |-> "set_open", key |-> k, data |-> v, ts |-> clock]]
    /\ last' = NoCall
    /\ UNCHANGED <<clock, disk_cache, restarts, calls, returned, fs, input, output>>

\* line 448: aiofiles.open(cache_file, "w") truncates the file, or raises
SetOpen(t) ==
    /\ task[t].pc = "set_open"
    /\ \/ /\ disk_cache' = DictSet(disk_cache, task[t].key, Torn)
          /\ task' = [task EXCEPT ![t].pc = "set_write"]
          /\ output' = output
       \/ /\ disk_cache' = SetDisk(disk_cache, task[t].ts, task[t].key, task[t].data, "open")
          /\ task' = [task EXCEPT ![t] = Idle]
          /\ output' = ErrorLog(output, "open")
    /\ last' = NoCall
    /\ UNCHANGED <<clock, memory_cache, written, restarts, calls, returned, fs, input>>

\* lines 449-451: the write and the close, or the exception that is logged.
\* The write starts at the beginning of the file, also when another task
\* wrote its record there since this task's open: a record at least as long
\* replaces it, a shorter one leaves its end behind, which json.loads
\* rejects like a torn file; the torn outcome stands for both
SetWrite(t) ==
    /\ task[t].pc = "set_write"
    /\ \E fail \in {"none", "write"} :
          /\ disk_cache' = SetDisk(disk_cache, task[t].ts, task[t].key, task[t].data, fail)
          /\ output' = ErrorLog(output, fail)
    /\ task' = [task EXCEPT ![t] = Idle]
    /\ last' = NoCall
    /\ UNCHANGED <<clock, memory_cache, written, restarts, calls, returned, fs, input>>

\* lines 410-424: get up to its first await
GetBegin(t, k) ==
    /\ task[t].pc = "idle"
    /\ LET m == GetMemory(memory_cache, clock, k) IN
       /\ memory_cache' = m.mem
       /\ IF m.hit
          THEN /\ last' = [op |-> "get", key |-> k, ret |-> Some(m.data), ts |-> m.ts,
                           tier |-> "memory", at |-> clock]
               /\ task' = task
          ELSE IF k \in DOMAIN disk_cache
               THEN /\ task' = [task EXCEPT ![t] = [Idle EXCEPT !.pc = "get_read", !.key = k]]
                    /\ last' = NoCall
               ELSE /\ last' = [op |-> "get", key |-> k, ret |-> None, ts |-> 0,
                            tier |-> "none", at |-> clock]
                    /\ task' = task
    /\ UNCHANGED <<clock, disk_cache, written, restarts, calls, returned, fs, input, output>>

\* lines 424-436: the file is read and parsed, a fresh record is promoted
GetRead(t) ==
    /\ task[t].pc = "get_read"
    /\ \E ioerror \in BOOLEAN :
          LET g == GetDisk(memory_cache, disk_cache[task[t].key], clock, task[t].key, ioerror) IN
          /\ memory_cache' = g.mem
          /\ last' = [op |-> "get", key |-> task[t].key, ret |-> g.ret, ts |-> g.ts,
                       tier |-> g.tier, at |-> clock]
    /\ task' = [task EXCEPT ![t] = Idle]
    /\ UNCHANGED <<clock, disk_cache, written, restarts, calls, returned, fs, input, output>>

\* time passes
Tick ==
    /\ clock + TickStep <= MaxClock
    /\ clock' = clock + TickStep
    /\ last' = NoCall
    /\ UNCHANGED <<memory_cache, disk_cache, task, written, restarts, calls, returned, fs, input, output>>

\* the process ends and a new one starts on the same cache directory
\* (line 403: memory_cache starts empty; the files stay)
Restart ==
    /\ restarts < MaxRestarts
    /\ restarts' = restarts + 1
    /\ memory_cache' = EmptyDict
    /\ task' = [t \in Tasks |-> Idle]
    /\ last' = NoCall
    /\ UNCHANGED <<clock, disk_cache, written, calls, returned, fs, input, output>>

CacheInit ==
    /\ clock = 0
    /\ memory_cache = EmptyDict
    /\ disk_cache = EmptyDict
    /\ task = [t \in Tasks |-> Idle]
    /\ written = {}
    /\ last = NoCall
    /\ restarts = 0
    /\ calls = 0
    /\ returned = EmptyDict
    /\ fs = 0
    /\ input = None
    /\ output = None

CacheNext ==
    \/ \E t \in Tasks, k \in CacheKeys, v \in CacheData : SetBegin(t, k, v)
    \/ \E t \in Tasks : SetOpen(t)
    \/ \E t \in Tasks : SetWrite(t)
    \/ \E t \in Tasks, k \in CacheKeys : GetBegin(t, k)
    \/ \E t \in Tasks : GetRead(t)
    \/ Tick
    \/ Restart

CacheSpec == CacheInit /\ [][CacheNext]_vars

----------------------------------------------------------------------------
(* Concurrent set calls *)

\* C27: when every set call has completed and none logged a write error,
\* the file of a key holds the value and the timestamp the memory map
\* holds for it.
C27_DiskEqualsMemory ==
    output = None /\ (\A t \in Tasks : task[t].pc = "idle") =>
        \A k \in DOMAIN memory_cache \cap DOMAIN disk_cache :
            disk_cache[k] = [data |-> memory_cache[k][1], timestamp |-> memory_cache[k][2]]

----------------------------------------------------------------------------
(* C1 *)

\* C1: a get returns a value only if that value was written for the key
\* at a time T with now - T < cache_ttl, through both tiers; a get that
\* directly follows set(k, v) returns v; a record whose age has reached
\* cache_ttl is never the one returned (last.ts is the served record's
\* timestamp, last.at the time of the return).
C1_ServedOnlyFresh ==
    /\ [](last.op = "get" /\ last.ret # None =>
            /\ <<last.key, last.ret[1], last.ts>> \in written
            /\ last.at - last.ts < cache_ttl)
    /\ [][\A t \in Tasks, k \in CacheKeys, v \in CacheData :
            SetBegin(t, k, v) =>
                CacheGet(memory_cache', disk_cache', clock', k, FALSE).ret = Some(v)]_vars

\* a get served a record from disk, after a restart, later than its write
C1_Witness ==
    /\ last.op = "get"
    /\ last.ret # None
    /\ last.tier = "disk"
    /\ last.at > last.ts
    /\ restarts = 1
    /\ last.key \in DOMAIN memory_cache
    /\ memory_cache[last.key] = <<last.ret[1], last.ts>>

----------------------------------------------------------------------------
(* C20 *)

\* the record is the complete one of a single set call
Complete(key, data, ts) == <<key, data, ts>> \in written

\* C20: under every interleaving of get and set at their awaits, a get
\* returns nothing or the complete value of one set call for its key, the
\* memory map holds for every key the value and timestamp of one set call,
\* and a file is either the complete record of one set call or unparseable.
C20_NoTornOrMixedValue ==
    /\ last.op = "get" /\ last.ret # None => Complete(last.key, last.ret[1], last.ts)
    /\ \A k \in DOMAIN memory_cache : Complete(k, memory_cache[k][1], memory_cache[k][2])
    /\ \A k \in DOMAIN disk_cache :
           disk_cache[k] # Torn => Complete(k, disk_cache[k].data, disk_cache[k].timestamp)

\* a get read the file of its key between the open and the write of a set
\* for the same key and returned nothing
C20_Witness ==
    /\ last.op = "get"
    /\ last.ret = None
    /\ last.key \in DOMAIN disk_cache
    /\ disk_cache[last.key] = Torn
    /\ \E t \in Tasks : task[t].pc = "set_write" /\ task[t].key = last.key

----------------------------------------------------------------------------
(* CacheFaultSpec: get and set called in turn in one process, each run to   *)
(* its end, on a cache directory that may hold a file the process did not   *)
(* write, with read and write failures.                                     *)

MaxFaultCalls == 3

\* the cache directory at the start: empty, or a file for k1 that is torn,
\* lacks the timestamp, lacks the data, or is a complete record
FaultFiles ==
    {EmptyDict,
     [k \in {"k1"} |-> Torn],
     [k \in {"k1"} |-> [data |-> "v1"]],
     [k \in {"k1"} |-> [timestamp |-> 0]],
     [k \in {"k1"} |-> [data |-> "v1", timestamp |-> 0]]}

CacheFaultInit ==
    /\ disk_cache \in FaultFiles
    /\ clock = 0
    /\ memory_cache = EmptyDict
    /\ task = [t \in Tasks |-> Idle]
    /\ written = {}
    /\ last = NoCall
    /\ restarts = 0
    /\ calls = 0
    /\ returned = EmptyDict
    /\ fs = 0
    /\ input = None
    /\ output = None

\* set(k, v) (lines 438-451); returned[k] keeps the last set for k
FaultSet(k, v, fail) ==
    /\ calls < MaxFaultCalls
    /\ calls' = calls + 1
    /\ memory_cache' = SetMemory(memory_cache, clock, k, v)
    /\ disk_cache' = SetDisk(disk_cache, clock, k, v, fail)
    /\ returned' = DictSet(returned, k, [data |-> v, ts |-> clock, fail |-> fail])
    /\ last' = [op |-> "set", key |-> k, fail |-> fail,
                raised |-> ExceptLog(WriteFile(fail)).raised]
    /\ UNCHANGED <<clock, task, written, restarts, fs, input, output>>

\* the state after get(k) ended as g
FaultGetReturns(g, k, ioerror) ==
    /\ memory_cache' = g.mem
    /\ last' = [op |-> "get", key |-> k, ret |-> g.ret, ts |-> g.ts, tier |-> g.tier,
                at |-> clock, raised |-> g.raised, ioerror |-> ioerror,
                file |-> IF k \in DOMAIN disk_cache THEN Some(disk_cache[k]) ELSE None]

\* get(k) (lines 410-436); ioerror: opening or reading the file fails
FaultGet(k, ioerror) ==
    /\ calls < MaxFaultCalls
    /\ calls' = calls + 1
    /\ ioerror => k \in DOMAIN disk_cache
    /\ FaultGetReturns(CacheGet(memory_cache, disk_cache, clock, k, ioerror), k, ioerror)
    /\ UNCHANGED <<clock, disk_cache, task, written, restarts, returned, fs, input, output>>

CacheFaultNext ==
    \/ \E k \in CacheKeys, v \in CacheData, fail \in {"none", "open", "write"} : FaultSet(k, v, fail)
    \/ \E k \in CacheKeys, ioerror \in BOOLEAN : FaultGet(k, ioerror)
    \/ Tick

CacheFaultSpec == CacheFaultInit /\ [][CacheFaultNext]_vars

\* the file cannot be read or parsed, or lacks a field
Unusable(file, ioerror) ==
    ioerror \/ file = Torn \/ "timestamp" \notin DOMAIN file \/ "data" \notin DOMAIN file

----------------------------------------------------------------------------
(* Python strings as sequences of symbols *)

\* str.lower() on one symbol; the symbols of the model that have an upper case
LowerSym(c) ==
    CASE c = "F" -> "f"
      [] c = "O" -> "o"
      [] c = "Function" -> "function"
      [] c = "Class" -> "class"
      [] c = "Guide" -> "guide"
      [] c = "Python" -> "python"
      [] c = "Alpha" -> "alpha"
      [] c = "Beta" -> "beta"
      [] OTHER -> c

\* str.lower()
Lower(s) == [i \in 1..Len(s) |-> LowerSym(s[i])]

\* s.startswith(p)
StartsWith(s, p) == Len(p) <= Len(s) /\ SubSeq(s, 1, Len(p)) = p

\* p in s
Contains(s, p) ==
    \E i \in 0..(Len(s) - Len(p)) : SubSeq(s, i + 1, i + Len(p)) = p

\* the position list.index(x) returns: the first one
IndexOf(seq, x) == CHOOSE i \in 1..Len(seq) : seq[i] = x /\ \A j \in 1..(i - 1) : seq[j] # x

\* sorted(seq, key=lambda x: x.score, reverse=True): stable, so an element is
\* placed after every element whose score is not smaller
\* the mutant of InsertByScore: an element is placed before the elements of
\* equal score, as a sort that is not stable may do
RECURSIVE InsertBeforeEqual(_, _)
InsertBeforeEqual(sorted, e) ==
    IF sorted = <<>> THEN <<e>>
    ELSE IF Head(sorted).score > e.score
         THEN <<Head(sorted)>> \o InsertBeforeEqual(Tail(sorted), e)
         ELSE <<e>> \o sorted

RECURSIVE InsertByScore(_, _)
InsertByScore(sorted, e) ==
    IF sorted = <<>> THEN <<e>>
    ELSE IF Head(sorted).score >= e.score
         THEN <<Head(sorted)>> \o InsertByScore(Tail(sorted), e)
         ELSE <<e>> \o sorted

RECURSIVE SortedByScore(_)
SortedByScore(seq) ==
    IF seq = <<>> THEN <<>>
    ELSE InsertByScore(SortedByScore(SubSeq(seq, 1, Len(seq) - 1)), seq[Len(seq)])

----------------------------------------------------------------------------
(* FuzzySearchEngine.rank_results *)

\* the mutant of MatchBonus: the substring test is an if, not an elif
MatchBonusNoElif(query_lower, name_lower) ==
    (IF query_lower = name_lower THEN 100 ELSE 0)
    + (IF Contains(name_lower, query_lower) THEN 50 ELSE 0)

\* lines 542-546
MatchBonus(query_lower, name_lower) ==
    IF query_lower = name_lower THEN 100
    ELSE IF Contains(name_lower, query_lower) THEN 50
    ELSE 0

\* the mutant of PrefixBonus: the prefix bonus is one more tier of the
\* if / elif chain, awarded only when neither of the others was
PrefixBonusExclusive(query_lower, name_lower) ==
    IF MatchBonus(query_lower, name_lower) = 0 /\ StartsWith(name_lower, query_lower)
    THEN 30 ELSE 0

\* lines 548-550
PrefixBonus(query_lower, name_lower) ==
    IF StartsWith(name_lower, query_lower) THEN 30 ELSE 0

\* lines 552-554
TypeBonus(type) ==
    IF Lower(type) \in {<<"function">>, <<"method">>, <<"class">>} THEN 10 ELSE 0

\* lines 556-559
popular_docsets == {<<"python">>, <<"javascript">>, <<"react">>, <<"nodejs">>}

DocsetBonus(docset) == IF Lower(docset) \in popular_docsets THEN 5 ELSE 0

\* lines 537-561: the score one entry is given
RankScore(entry, query) ==
    MatchBonus(Lower(query), Lower(entry.name))
    + PrefixBonus(Lower(query), Lower(entry.name))
    + TypeBonus(entry.type)
    + DocsetBonus(entry.docset)

\* lines 534-563
rank_results(entries, query) ==
    SortedByScore([i \in 1..Len(entries) |->
                      [entries[i] EXCEPT !.score = RankScore(entries[i], query)]])

----------------------------------------------------------------------------
(* RankSpec: rank_results applied to drawn entry lists *)

\* the longest entry list drawn
MaxEntries == 2

RankNames == {<<"f">>, <<"F">>, <<"f", "o">>, <<"F", "o">>, <<"o", "f">>, <<"o">>}
RankQueries == {<<"f">>, <<"F">>, <<"f", "o">>}
RankTypes == {<<"Function">>, <<"method">>, <<"Guide">>}
RankDocsets == {<<"Python">>, <<"Alpha">>}

\* line 374-383: DocEntry as search_docset builds it, score 0.0
DocEntry(name, type, path, docset, anchor) ==
    [name |-> name, type |-> type, path |-> path, docset |-> docset,
     content |-> None, anchor |-> anchor, score |-> 0]

RankEntries ==
    {DocEntry(n, t, <<"a.html">>, d, None) : n \in RankNames, t \in RankTypes, d \in RankDocsets}

SeqsUpTo(S, n) == UNION {[1..k -> S] : k \in 0..n}

RankInit ==
    /\ input \in {[entries |-> es, query |-> q] : es \in SeqsUpTo(RankEntries, MaxEntries), q \in RankQueries}
    /\ output = None
    /\ clock = 0
    /\ memory_cache = EmptyDict
    /\ disk_cache = EmptyDict
    /\ task = [t \in Tasks |-> Idle]
    /\ written = {}
    /\ last = NoCall
    /\ restarts = 0
    /\ calls = 0
    /\ returned = EmptyDict
    /\ fs = 0

RankResults ==
    /\ output = None
    /\ output' = Some(rank_results(input.entries, input.query))
    /\ UNCHANGED <<clock, memory_cache, disk_cache, task, written, last, restarts, calls, returned, fs, input>>

RankNext == RankResults

RankSpec == RankInit /\ [][RankNext]_vars

ExactMatch(e, query) == Lower(e.name) = Lower(query)

PrefixOnly(e, query) == StartsWith(Lower(e.name), Lower(query)) /\ ~ExactMatch(e, query)

\* the output lists the input entries in the order p, keeping the input
\* order among equal scores
StableOrder(p) ==
    /\ \A i \in 1..Len(output[1]) :
           [output[1][i] EXCEPT !.score = 0] = input.entries[p[i]]
    /\ \A i, j \in 1..Len(output[1]) :
           i < j /\ output[1][i].score = output[1][j].score => p[i] < p[j]

\* C29: rank_results puts every entry whose name equals the query
\* case-insensitively before every entry whose name does not, whatever
\* their type and docset; its output is a permutation of its input, and
\* entries of equal score keep their input order.
C29_ExactBeforeOthers ==
    output # None =>
        /\ \A i, j \in 1..Len(output[1]) :
               ExactMatch(output[1][i], input.query) /\ ~ExactMatch(output[1][j], input.query)
                   => i < j
        /\ Len(output[1]) = Len(input.entries)
        /\ \E p \in Permutations(1..Len(input.entries)) : StableOrder(p)

\* a ranked list whose input held an entry with every other bonus before a
\* plain exact match, and the two the other way round in the output
C29_Witness ==
    /\ output # None
    /\ Len(output[1]) = 2
    /\ ExactMatch(input.entries[2], input.query)
    /\ ~ExactMatch(input.entries[1], input.query)
    /\ output[1][1].score = 130
    /\ output[1][2].score = 95
    /\ [output[1][1] EXCEPT !.score = 0] = input.entries[2]

\* C8: in heuristic mode an entry whose name equals the query
\* case-insensitively scores exactly 130 plus 10 for a privileged type plus
\* 5 for a popular docset: at least 130, and never the +50 substring bonus.
C8_ExactScores130 ==
    output # None =>
        \A i \in 1..Len(output[1]) :
            ExactMatch(output[1][i], input.query) =>
                /\ output[1][i].score =
                       130 + TypeBonus(output[1][i].type) + DocsetBonus(output[1][i].docset)
                /\ output[1][i].score >= 130
                /\ output[1][i].score <= 145

\* a ranked list holding an exact match that differs from the query in case
C8_Witness ==
    /\ output # None
    /\ \E i \in 1..Len(output[1]) :
          /\ ExactMatch(output[1][i], input.query)
          /\ output[1][i].name # input.query
          /\ output[1][i].score = 145

\* C9 as stated: an entry whose name starts with the query without being
\* equal to it scores exactly 30 plus the type and docset bonuses.
C9_PrefixScores30 ==
    output # None =>
        \A i \in 1..Len(output[1]) :
            PrefixOnly(output[1][i], input.query) =>
                output[1][i].score =
                    30 + TypeBonus(output[1][i].type) + DocsetBonus(output[1][i].docset)

\* C9 amended: an entry whose name starts with the query without being equal
\* to it scores exactly 80 (50 substring + 30 prefix) plus the type and
\* docset bonuses.
C9_PrefixScores80 ==
    output # None =>
        \A i \in 1..Len(output[1]) :
            PrefixOnly(output[1][i], input.query) =>
                output[1][i].score =
                    80 + TypeBonus(output[1][i].type) + DocsetBonus(output[1][i].docset)

\* a ranked list holding an entry that starts with the query and is longer
C9_Witness ==
    /\ output # None
    /\ \E i \in 1..Len(output[1]) :
          /\ PrefixOnly(output[1][i], input.query)
          /\ output[1][i].score >= 80

----------------------------------------------------------------------------
(* FuzzySearchEngine.fuzzy_search *)

\* line 518: f"{entry.name} {entry.type} {entry.docset}"
Searchable(entry) == entry.name \o <<" ">> \o entry.type \o <<" ">> \o entry.docset

\* line 521: fuzzywuzzy's process.extract(query, searchable, limit=len(entries)).
\* The similarity is the library's: sim maps each choice string to its score
\* for the query, the same string always to the same score.  The pairs come
\* back ordered by score, highest first (heapq.nlargest over all of them).
ProcessExtract(searchable, sim) ==
    SortedByScore([i \in 1..Len(searchable) |->
                      [match |-> searchable[i], score |-> sim[searchable[i]]]])

\* line 527: idx = searchable.index(match)
MatchedIndex(searchable, matches, m) == IndexOf(searchable, matches[m].match)

\* lines 524-530: the entries kept, in the order of the matches
RECURSIVE FuzzyResults(_, _, _, _, _)
FuzzyResults(entries, searchable, matches, threshold, m) ==
    IF m > Len(matches) THEN <<>>
    ELSE (IF matches[m].score >= threshold
          THEN <<[entries[MatchedIndex(searchable, matches, m)]
                     EXCEPT !.score = matches[m].score]>>
          ELSE <<>>)
         \o FuzzyResults(entries, searchable, matches, threshold, m + 1)

\* lines 507-532.  matcher: whether process.extract was invoked
fuzzy_search(query, entries, threshold, sim) ==
    IF entries = <<>>
    THEN [results |-> <<>>, matcher |-> FALSE]
    ELSE LET searchable == [i \in 1..Len(entries) |-> Searchable(entries[i])]
             matches == ProcessExtract(searchable, sim)
         IN  [results |-> SortedByScore(FuzzyResults(entries, searchable, matches, threshold, 1)),
              matcher |-> TRUE]

\* line 509: threshold: int = 60
DefaultThreshold == 60

----------------------------------------------------------------------------
(* FuzzySpec: fuzzy_search applied to drawn entry lists and similarities *)

\* the longest entry list drawn
MaxFuzzyEntries == 2

FuzzyEntries ==
    {DocEntry(n, <<"Function">>, p, d, None) :
        n \in {<<"f">>, <<"f", "o">>}, p \in {<<"a.html">>, <<"b.html">>},
        d \in {<<"Python">>, <<"Alpha">>}}

\* similarities below, at and above the threshold
ScoreLevels == {50, 60, 90}

FuzzyInit ==
    /\ input \in {[entries |-> es, query |-> <<"f">>, sim |-> sm] :
                     es \in SeqsUpTo(FuzzyEntries, MaxFuzzyEntries),
                     sm \in [{Searchable(e) : e \in FuzzyEntries} -> ScoreLevels]}
    /\ output = None
    /\ clock = 0
    /\ memory_cache = EmptyDict
    /\ disk_cache = EmptyDict
    /\ task = [t \in Tasks |-> Idle]
    /\ written = {}
    /\ last = NoCall
    /\ restarts = 0
    /\ calls = 0
    /\ returned = EmptyDict
    /\ fs = 0

FuzzySearch ==
    /\ output = None
    /\ output' = Some(fuzzy_search(input.query, input.entries, DefaultThreshold, input.sim))
    /\ UNCHANGED <<clock, memory_cache, disk_cache, task, written, last, restarts, calls, returned, fs, input>>

FuzzyNext == FuzzySearch

FuzzySpec == FuzzyInit /\ [][FuzzyNext]_vars

\* how many times x occurs in seq
Count(seq, x) == Cardinality({i \in 1..Len(seq) : seq[i] = x})

\* the input entries at or above the threshold, each with its own similarity
FuzzyExpected ==
    LET es == input.entries
        scored == [i \in 1..Len(es) |-> [es[i] EXCEPT !.score = input.sim[Searchable(es[i])]]]
    IN  SelectSeq(scored, LAMBDA e : e.score >= DefaultThreshold)

\* C10: fuzzy_search returns exactly the input entries whose similarity is
\* at least the threshold, each once and with its own similarity as score,
\* ordered by non-increasing score, also when entries share name, type and
\* docset; an empty input returns empty without invoking the matcher.
C10_FuzzyExactlyMatches ==
    output # None =>
        LET res == output[1].results IN
        /\ \A e \in FuzzyEntries \cup {res[i] : i \in 1..Len(res)} \cup
                    {FuzzyExpected[i] : i \in 1..Len(FuzzyExpected)} :
               Count(res, e) = Count(FuzzyExpected, e)
        /\ \A i \in 1..(Len(res) - 1) : res[i].score >= res[i + 1].score
        /\ (input.entries = <<>> => res = <<>> /\ ~output[1].matcher)

----------------------------------------------------------------------------
(* The docset bundles on disk.  fs = [root_exists, bundles]: bundles is the *)
(* list of *.docset directories in glob order.  A bundle is                 *)
(*   [dir, has_db, has_docs, docs, plist, db] with dir its path under the   *)
(* root as a sequence of components (each a string), docs the files under   *)
(* Contents/Resources/Documents (relative path -> extracted text), plist    *)
(* the CFBundleName of Contents/Info.plist if any, and                      *)
(*   db = [tables, anchor, fault, rows] the SQLite file docSet.dsidx.       *)

\* min(a, b)
Min(a, b) == IF a < b THEN a ELSE b

\* seq[:n]
Take(seq, n) == SubSeq(seq, 1, Min(n, Len(seq)))

\* line 666 / 667: docset_dir / "Contents/Resources/docSet.dsidx", .../Documents
DbPath(dir) == dir \o << <<"Contents">>, <<"Resources">>, <<"docSet.dsidx">> >>
DocsPath(dir) == dir \o << <<"Contents">>, <<"Resources">>, <<"Documents">> >>

\* line 689: docset_dir.name.replace(".docset", "")
DocsetName(dir) == SelectSeq(dir[Len(dir)], LAMBDA c : c # ".docset")

\* line 690: docset_dir.parent.name (the root's own name for a bundle in the root)
Category(dir) == IF Len(dir) > 1 THEN dir[Len(dir) - 1] ELSE <<"Dash">>

\* lines 731-739: "User Contributed" in str(docset_dir), "DocSets" in str(docset_dir)
Source(dir) ==
    IF \E i \in 1..Len(dir) : Contains(dir[i], <<"User Contributed">>) THEN "user_contributed"
    ELSE IF \E i \in 1..Len(dir) : Contains(dir[i], <<"DocSets">>) THEN "official"
    ELSE "unknown"

\* lines 692-741: the descriptor of one valid bundle
Descriptor(b) ==
    [name |-> DocsetName(b.dir), db_path |-> DbPath(b.dir), docs_path |-> DocsPath(b.dir),
     has_content |-> b.has_docs, category |-> Category(b.dir), source |-> Source(b.dir)]
    @@ (IF b.plist # None THEN [display_name |-> b.plist[1]] ELSE <<>>)

\* lines 662-743: one descriptor per bundle that has its database file
RECURSIVE Discover(_)
Discover(bundles) ==
    IF bundles = <<>> THEN <<>>
    ELSE (IF Head(bundles).has_db THEN <<Descriptor(Head(bundles))>> ELSE <<>>)
         \o Discover(Tail(bundles))

\* line 619
CatalogKey == <<"available_docsets">>

\* CacheManager.set run to its end, the disk write succeeding
CacheSet(c, now, key, data) ==
    [mem |-> SetMemory(c.mem, now, key, data),
     disk |-> SetDisk(c.disk, now, key, data, "none")]

\* lines 632, 648, 760: the list found is stored and returned.  The result
\* holds the returned list, the cache after, whether the root was scanned,
\* the values handed to cache.set and the timestamp of the record that holds
\* the list
ScanResult(c, now, docsets, scanned) ==
    [ret |-> docsets, cache |-> CacheSet(c, now, CatalogKey, docsets), scanned |-> scanned,
     sets |-> << <<CatalogKey, docsets>> >>, ts |-> now]

\* the mutant of CatalogAfterGet: the root is scanned whatever cache.get
\* returned
CatalogAlwaysScanned(g, c, now, files) ==
    IF ~files.root_exists
    THEN ScanResult([mem |-> g.mem, disk |-> c.disk], now, <<>>, FALSE)
    ELSE ScanResult([mem |-> g.mem, disk |-> c.disk], now, Discover(files.bundles), TRUE)

\* lines 621-760, g being what cache.get returned
CatalogAfterGet(g, c, now, files) ==
    IF Truthy(g.ret)
    THEN [ret |-> g.ret[1], cache |-> [mem |-> g.mem, disk |-> c.disk], scanned |-> FALSE,
          sets |-> <<>>, ts |-> g.ts]
    ELSE IF ~files.root_exists
    THEN ScanResult([mem |-> g.mem, disk |-> c.disk], now, <<>>, FALSE)
    ELSE IF files.bundles = <<>>
    THEN ScanResult([mem |-> g.mem, disk |-> c.disk], now, <<>>, TRUE)
    ELSE ScanResult([mem |-> g.mem, disk |-> c.disk], now, Discover(files.bundles), TRUE)

\* lines 601-763.  c = [mem, disk] is the cache before
get_available_docsets(c, now, files) ==
    CatalogAfterGet(CacheGet(c.mem, c.disk, now, CatalogKey, FALSE), c, now, files)

----------------------------------------------------------------------------
(* One docset's database *)

\* what sqlite3.connect finds at a path no bundle owns: a new, empty database
EmptyDb == [tables |-> {}, anchor |-> FALSE, fault |-> "none", rows |-> <<>>]

\* line 838: the database at docset["db_path"]
DbAt(files, db_path) ==
    IF \E i \in 1..Len(files.bundles) :
           files.bundles[i].has_db /\ DbPath(files.bundles[i].dir) = db_path
    THEN files.bundles[CHOOSE i \in 1..Len(files.bundles) :
           files.bundles[i].has_db /\ DbPath(files.bundles[i].dir) = db_path].db
    ELSE EmptyDb

\* WHERE name LIKE '%query%': NULL never matches, ASCII case is ignored
Like(name, query) == name # None /\ Contains(Lower(name[1]), Lower(query))

\* SELECT ... WHERE name LIKE ? LIMIT ?
SelectLike(rows, query, cap) == Take(SelectSeq(rows, LAMBDA r : Like(r.name, query)), cap)

\* x or default, for an Optional string
OrElse(opt, default) == IF opt # None /\ opt[1] # <<>> THEN opt[1] ELSE default

\* lines 865-882: the search-index layout
SearchIndexEntries(db, docset, query, limit) ==
    LET rows == SelectLike(db.rows, query, limit * 2) IN
    [i \in 1..Len(rows) |->
        DocEntry(rows[i].name[1], rows[i].type[1], rows[i].path[1], docset,
                 IF db.anchor THEN rows[i].anchor ELSE None)]

\* lines 897-912: the token-store layout, the join query
TokenJoinEntries(db, docset, query, limit) ==
    LET rows == SelectSeq(SelectLike(db.rows, query, limit * 2),
                          LAMBDA r : r.name # None /\ r.name[1] # <<>>) IN
    [i \in 1..Len(rows) |->
        DocEntry(rows[i].name[1], OrElse(rows[i].type, <<"Unknown">>),
                 OrElse(rows[i].path, <<>>), docset, None)]

\* the mutant of TokenFallbackEntries: the fallback keeps the type column
TokenFallbackEntriesTyped(db, docset, query, limit) ==
    LET rows == SelectSeq(SelectLike(db.rows, query, limit),
                          LAMBDA r : r.name # None /\ r.name[1] # <<>>) IN
    [i \in 1..Len(rows) |->
        DocEntry(rows[i].name[1], OrElse(rows[i].type, <<"Unknown">>),
                 OrElse(rows[i].path, <<>>), docset, None)]

\* lines 919-933: the token-store layout, the fallback query (LIMIT limit)
TokenFallbackEntries(db, docset, query, limit) ==
    LET rows == SelectSeq(SelectLike(db.rows, query, limit),
                          LAMBDA r : r.name # None /\ r.name[1] # <<>>) IN
    [i \in 1..Len(rows) |->
        DocEntry(rows[i].name[1], <<"Unknown">>, OrElse(rows[i].path, <<>>), docset, None)]

\* The faults of a database, by the first statement that raises:
\*   "connect"  sqlite3.connect (line 838)
\*   "schema"   the sqlite_master query (line 844)
\*   "query"    the search-index query (lines 853-870) or the join (line 899)
\*   "fallback" the join and the fallback query (lines 899, 920)
\*   "other"    a statement of the query block (lines 842-951) raises an
\*              exception that is no sqlite3.Error, such as the OverflowError of
\*              a LIMIT parameter beyond 64 bits or a MemoryError in fetchall
Faults == {"none", "connect", "schema", "query", "fallback", "other"}

\* lines 838-960: the handle of a docset when the loop moves on.  connect
\* raised: there is none; a sqlite3.Error is caught at line 952 and line 957
\* closes the handle; any other exception passes line 957 by and is caught
\* at line 959, the handle still open
HandleAfter(db) ==
    CASE db.fault = "connect" -> "none"
      [] db.fault = "other"   -> "open"
      [] OTHER                -> "closed"

\* lines 835-960: the entries one docset adds to all_entries
QueryDocset(db, docset, query, limit) ==
    IF db.fault \in {"connect", "schema"} THEN <<>>
    ELSE IF "searchIndex" \in db.tables
    THEN IF db.fault = "none" THEN SearchIndexEntries(db, docset, query, limit) ELSE <<>>
    ELSE IF {"ZTOKEN", "ZTOKENTYPE"} \subseteq db.tables
    THEN CASE db.fault = "none"  -> TokenJoinEntries(db, docset, query, limit)
           [] db.fault = "query" -> TokenFallbackEntries(db, docset, query, limit)
           [] OTHER              -> <<>>
    ELSE <<>>

\* the mutant of AllEntries: the first docset that contributes nothing ends the loop
RECURSIVE AllEntriesAbort(_, _, _, _)
AllEntriesAbort(files, docsets, query, limit) ==
    IF docsets = <<>> THEN <<>>
    ELSE LET here == QueryDocset(DbAt(files, Head(docsets).db_path), Head(docsets).name,
                                 query, limit)
         IN  IF here = <<>> THEN <<>>
             ELSE here \o AllEntriesAbort(files, Tail(docsets), query, limit)

\* lines 832-960: all_entries after the loop over docsets
RECURSIVE AllEntries(_, _, _, _)
AllEntries(files, docsets, query, limit) ==
    IF docsets = <<>> THEN <<>>
    ELSE QueryDocset(DbAt(files, Head(docsets).db_path), Head(docsets).name, query, limit)
         \o AllEntries(files, Tail(docsets), query, limit)

----------------------------------------------------------------------------
(* DashMCPServer._add_content_to_entries *)

\* the files under a document root; none when no bundle owns the path
DocsAt(files, docs_path) ==
    IF \E i \in 1..Len(files.bundles) :
           files.bundles[i].has_docs /\ DocsPath(files.bundles[i].dir) = docs_path
    THEN files.bundles[CHOOSE i \in 1..Len(files.bundles) :
           files.bundles[i].has_docs /\ DocsPath(files.bundles[i].dir) = docs_path].docs
    ELSE EmptyDict

\* line 1078: {d["name"]: d["docs_path"] for d in docsets if d["has_content"]};
\* a later descriptor of the same name replaces an earlier one
RECURSIVE DocsetPaths(_)
DocsetPaths(docsets) ==
    IF docsets = <<>> THEN EmptyDict
    ELSE LET d == docsets[Len(docsets)]
             rest == DocsetPaths(SubSeq(docsets, 1, Len(docsets) - 1))
         IN  IF d.has_content THEN DictSet(rest, d.name, d.docs_path) ELSE rest

FileSuffixes == {".html", ".htm", ".md", ".txt", ".pdf"}

\* line 594-599
supported_formats == {".html", ".htm", ".md", ".txt"}

\* Path.suffix of a relative path given as <<stem, suffix>>
Suffix(path) ==
    IF path # <<>> /\ path[Len(path)] \in FileSuffixes THEN path[Len(path)] ELSE ""

\* Path.with_suffix(ext)
WithSuffix(path, ext) ==
    IF Suffix(path) # "" THEN SubSeq(path, 1, Len(path) - 1) \o <<ext>> ELSE path \o <<ext>>

\* Path.exists() of docs_path / path: the empty path is the root itself
FileExists(docs, path) == path \in DOMAIN docs

\* lines 1116-1136: the file the entry's path resolves to, None if there is none
ResolveFile(docs, root_exists, path) ==
    IF (path = <<>> /\ root_exists) \/ FileExists(docs, path) THEN Some(path)
    ELSE LET alts == [i \in 1..4 |-> WithSuffix(path, <<".html", ".htm", ".md", ".txt">>[i])]
             found == {i \in 1..4 : FileExists(docs, alts[i])}
         IN  IF found = {} THEN None
             ELSE Some(alts[CHOOSE i \in found : \A j \in found : i <= j])

\* lines 1138-1160: the content of the file found, None if it stays unset
ContentOf(docs, file) ==
    IF file = None THEN None
    ELSE IF Lower(<<Suffix(file[1])>>)[1] \notin supported_formats THEN None
    ELSE IF docs[file[1]] = "" THEN None
    ELSE Some(docs[file[1]])

\* whether a bundle's document root is at docs_path
HasDocsAt(files, docs_path) ==
    \E i \in 1..Len(files.bundles) :
        files.bundles[i].has_docs /\ DocsPath(files.bundles[i].dir) = docs_path

\* lines 1100-1173: the content one entry is given, None if it stays unset
ExtractContent(files, docset_paths, entry) ==
    IF entry.docset \notin DOMAIN docset_paths THEN None
    ELSE ContentOf(DocsAt(files, docset_paths[entry.docset]),
                   ResolveFile(DocsAt(files, docset_paths[entry.docset]),
                               HasDocsAt(files, docset_paths[entry.docset]), entry.path))

\* lines 1078-1173, cat being what get_available_docsets returned
ContentAfterCatalog(cat, files, entries) ==
    [entries |-> [i \in 1..Len(entries) |->
                     [entries[i] EXCEPT
                         !.content = ExtractContent(files, DocsetPaths(cat.ret), entries[i])]],
     cache |-> cat.cache, scanned |-> cat.scanned, sets |-> cat.sets]

\* lines 1060-1173: the entries with their content, and the cache after the
\* catalog was asked for once more
add_content_to_entries(c, now, files, entries) ==
    ContentAfterCatalog(get_available_docsets(c, now, files), files, entries)

----------------------------------------------------------------------------
(* DashMCPServer.search_docset *)

\* str(x) inside the f-string of line 796
StrOfOptional(opt) == IF opt = None THEN <<"None">> ELSE opt[1]
StrOfBool(b) == IF b THEN <<"True">> ELSE <<"False">>

\* line 796: f"{query}_{docset_name}_{limit}_{include_content}"
CacheKeyString(p) ==
    p.query \o <<"_">> \o StrOfOptional(p.docset_name) \o <<"_">> \o <<ToString(p.limit)>>
    \o <<"_">> \o StrOfBool(p.include_content)

\* lines 406-408, 795-797: the MD5 digest of the key string.  The digest is
\* taken to be collision-free: it is the string itself under the tag "md5"
get_cache_key_for(p) == <<"md5">> \o CacheKeyString(p)

\* lines 1022-1038: the plain record of one entry
ResultRecord(entry) ==
    [docset |-> entry.docset, name |-> entry.name, type |-> entry.type,
     path |-> entry.path, score |-> entry.score]
    @@ (IF entry.anchor # None /\ entry.anchor[1] # <<>> THEN [anchor |-> entry.anchor[1]] ELSE <<>>)
    @@ (IF entry.content # None THEN [content |-> entry.content[1]] ELSE <<>>)

\* lines 813-821: the docsets the search runs on, None when the named one is unknown
SelectDocsets(docsets, docset_name) ==
    IF docset_name # None /\ docset_name[1] # <<>>
    THEN LET sel == SelectSeq(docsets, LAMBDA d : Lower(d.name) = Lower(docset_name[1]))
         IN  IF sel = <<>> THEN None ELSE Some(sel)
    ELSE Some(docsets)

\* the mutant of RankAndLimit: the ranked list is not cut
RankAndLimitNoCut(entries, p, sim) ==
    IF p.use_fuzzy
    THEN fuzzy_search(p.query, entries, DefaultThreshold,
             [x \in {Searchable(entries[i]) : i \in 1..Len(entries)} |-> sim[x]]).results
    ELSE rank_results(entries, p.query)

\* lines 981-998: ranking in the mode selected, then the cut to limit
RankAndLimit(entries, p, sim) ==
    LET ranked == IF p.use_fuzzy
                  THEN fuzzy_search(p.query, entries, DefaultThreshold,
                           [x \in {Searchable(entries[i]) : i \in 1..Len(entries)} |-> sim[x]]).results
                  ELSE rank_results(entries, p.query)
    IN  IF Len(ranked) > p.limit THEN Take(ranked, p.limit) ELSE ranked

\* the mutant of ServeCached: the cache is never read
ServeCachedNever(cached, p) == FALSE

\* line 799: if cached and not include_content
ServeCached(cached, p) == Truthy(cached) /\ ~p.include_content

\* the mutant of CacheResults: the formatted records are cached whatever the mode
CacheResultsAlways(p) == TRUE

\* line 1043: if not include_content
CacheResults(p) == ~p.include_content

\* lines 1008-1058: the records are formatted, stored unless they carry
\* content, and returned
FormatAndStore(enriched, all_entries, opened, now, p, key, results) ==
    IF CacheResults(p)
    THEN [ret |-> results, cache |-> CacheSet(enriched.cache, now, key, results),
          opened |-> opened, sets |-> enriched.sets \o << <<key, results>> >>,
          scanned |-> enriched.scanned, entries |-> all_entries]
    ELSE [ret |-> results, cache |-> enriched.cache, opened |-> opened,
          sets |-> enriched.sets, scanned |-> enriched.scanned, entries |-> all_entries]

\* lines 1008-1038: the plain records of the entries
FormatResults(enriched, all_entries, opened, now, p, key) ==
    FormatAndStore(enriched, all_entries, opened, now, p, key,
                   [i \in 1..Len(enriched.entries) |-> ResultRecord(enriched.entries[i])])

\* lines 975-1058: all_entries in hand; content is added if asked for
SearchWithEntries(all_entries, opened, c, now, files, sim, p, key) ==
    IF all_entries = <<>>
    THEN [ret |-> <<>>, cache |-> CacheSet(c, now, key, <<>>), opened |-> opened,
          sets |-> << <<key, <<>> >> >>, scanned |-> FALSE, entries |-> <<>>]
    ELSE FormatResults(IF p.include_content
                       THEN add_content_to_entries(c, now, files, RankAndLimit(all_entries, p, sim))
                       ELSE [entries |-> RankAndLimit(all_entries, p, sim), cache |-> c,
                             scanned |-> FALSE, sets |-> <<>>],
                       all_entries, opened, now, p, key)

\* lines 813-960, sel being the docsets selected.
\* opened: the databases connected to, in order; entries: all_entries
SearchSelected(sel, c, now, files, sim, p, key) ==
    IF sel = None
    THEN [ret |-> <<>>, cache |-> c, opened |-> <<>>, sets |-> <<>>, scanned |-> FALSE,
          entries |-> <<>>]
    ELSE SearchWithEntries(AllEntries(files, sel[1], p.query, p.limit),
                           [i \in 1..Len(sel[1]) |-> sel[1][i].db_path],
                           c, now, files, sim, p, key)

\* lines 809-1058: the search proper, on the docsets the catalog gave
SearchBody(c, now, files, sim, p, key, docsets) ==
    SearchSelected(SelectDocsets(docsets, p.docset_name), c, now, files, sim, p, key)

\* lines 803-1058: what a search that was not served from the cache returns
SearchResult(cat, body) ==
    [ret |-> body.ret, cache |-> body.cache, hit |-> FALSE, listed |-> TRUE,
     scanned |-> cat.scanned \/ body.scanned, opened |-> body.opened,
     sets |-> cat.sets \o body.sets, catalog |-> cat.ret,
     catalog_ts |-> cat.ts, entries |-> body.entries]

\* lines 803-1058, cat being what get_available_docsets returned
SearchAfterCatalog(cat, now, files, sim, p, key) ==
    SearchResult(cat, SearchBody(cat.cache, now, files, sim, p, key, cat.ret))

\* lines 798-1058, g being what cache.get returned
SearchAfterGet(g, c, now, files, sim, p, key) ==
    IF ServeCached(g.ret, p)
    THEN [ret |-> g.ret[1], cache |-> [mem |-> g.mem, disk |-> c.disk], hit |-> TRUE,
          listed |-> FALSE, scanned |-> FALSE, opened |-> <<>>, sets |-> <<>>,
          catalog |-> <<>>, catalog_ts |-> 0, entries |-> <<>>, ts |-> g.ts]
    ELSE SearchAfterCatalog(get_available_docsets([mem |-> g.mem, disk |-> c.disk], now, files),
                            now, files, sim, p, key)
         @@ [ts |-> now]

\* lines 765-1058.  hit: the cached list was returned; listed: the catalog
\* was asked for; catalog: what get_available_docsets returned; ts: the
\* timestamp of the cache record served, or of the call when none was
search_docset(c, now, files, sim, p) ==
    SearchAfterGet(CacheGet(c.mem, c.disk, now, get_cache_key_for(p), FALSE),
                   c, now, files, sim, p, get_cache_key_for(p))

----------------------------------------------------------------------------
(* SearchSpec: calls of search_docset and get_available_docsets on one      *)
(* server, each run to its end before the next (one event loop, the calls   *)
(* awaited in turn), over the docset bundles fs and the passing of time.    *)

MaxCalls == 2

\* a row of searchIndex or of ZTOKEN joined to its type and path
Row(name, type, path, anchor) == [name |-> name, type |-> type, path |-> path, anchor |-> anchor]

AlphaRows ==
    << Row(Some(<<"f">>), Some(<<"Function">>), Some(<<"a", ".html">>), Some(<<"x">>)),
       Row(Some(<<"F", "o">>), Some(<<"Guide">>), Some(<<"b">>), None),
       Row(Some(<<"o", "f">>), Some(<<"Class">>), Some(<<"c", ".pdf">>), Some(<<>>)) >>

BetaRows ==
    << Row(None, Some(<<"Function">>), Some(<<"a", ".html">>), None),
       Row(Some(<<"f", "o">>), Some(<<"Class">>), Some(<<"a", ".html">>), None),
       Row(Some(<<"f">>), None, None, None) >>

AlphaDocs ==
    [path \in {<<"a", ".html">>, <<"b", ".md">>, <<"c", ".pdf">>} |->
        CASE path = <<"a", ".html">> -> "alpha a"
          [] path = <<"b", ".md">>   -> "alpha b"
          [] OTHER                   -> "alpha c"]

BetaDocs == [path \in {<<"a", ".html">>} |-> ""]

OtherDocs == [path \in {<<"a", ".html">>} |-> "other a"]

Bundle(dir, has_db, has_docs, docs, plist, tables, fault, rows) ==
    [dir |-> dir, has_db |-> has_db, has_docs |-> has_docs, docs |-> docs, plist |-> plist,
     db |-> [tables |-> tables, anchor |-> TRUE, fault |-> fault, rows |-> rows]]

\* the search-index docset Alpha
Alpha(fault) ==
    Bundle(<< <<"DocSets">>, <<"Alpha", ".docset">> >>, TRUE, TRUE, AlphaDocs,
           Some(<<"Alpha Docs">>), {"searchIndex"}, fault, AlphaRows)

\* the token-store docset Beta
Beta(fault) ==
    Bundle(<< <<"DocSets">>, <<"Beta", ".docset">> >>, TRUE, TRUE, BetaDocs,
           None, {"ZTOKEN", "ZTOKENTYPE", "ZFILEPATH"}, fault, BetaRows)

\* a second bundle named Alpha, among the user-contributed docsets
OtherAlpha(fault) ==
    Bundle(<< <<"User Contributed">>, <<"Alpha", ".docset">> >>, TRUE, TRUE, OtherDocs,
           None, {"searchIndex"}, fault, AlphaRows)

\* a bundle whose database has neither layout, and one without a database
Gamma == Bundle(<< <<"Gamma", ".docset">> >>, TRUE, FALSE, EmptyDict, None, {"other"}, "none", <<>>)
Delta == Bundle(<< <<"Delta", ".docset">> >>, FALSE, TRUE, AlphaDocs, None, {}, "none", <<>>)

FsConfigs ==
    { [root_exists |-> FALSE, bundles |-> <<>>],
      [root_exists |-> TRUE, bundles |-> <<>>],
      [root_exists |-> TRUE, bundles |-> <<Alpha("none"), Delta>>],
      [root_exists |-> TRUE, bundles |-> <<Alpha("none"), Beta("none")>>],
      [root_exists |-> TRUE, bundles |-> <<Alpha("none"), Beta("query")>>],
      [root_exists |-> TRUE, bundles |-> <<Alpha("none"), Beta("fallback")>>],
      [root_exists |-> TRUE, bundles |-> <<Beta("connect"), Alpha("none")>>],
      [root_exists |-> TRUE, bundles |-> <<Beta("schema"), Alpha("none")>>],
      [root_exists |-> TRUE, bundles |-> <<Alpha("query"), Beta("none")>>],
      [root_exists |-> TRUE, bundles |-> <<Alpha("none"), OtherAlpha("connect")>>],
      [root_exists |-> TRUE, bundles |-> <<Gamma, Alpha("none")>>],
      [root_exists |-> TRUE, bundles |-> <<Alpha("other"), Beta("none")>>] }

\* every string the matcher can be given
Searchables ==
    {Searchable(DocEntry(n, t, <<>>, d, None)) :
        n \in {<<"f">>, <<"F", "o">>, <<"o", "f">>, <<"f", "o">>},
        t \in {<<"Function">>, <<"Guide">>, <<"Class">>, <<"Unknown">>},
        d \in {<<"Alpha">>, <<"Beta">>}}

\* two similarity functions: every string well above the threshold, and
\* strings below, at and above it
SimHigh == [x \in Searchables |-> 90]
SimMixed == [x \in Searchables |-> IF x[1] = "o" THEN 50 ELSE IF Len(x) > 5 THEN 60 ELSE 90]

\* the similarity function of a behaviour, and the query, limit and
\* docset_name its searches are made with
SearchInputs ==
    { [sim |-> SimHigh, query |-> <<"f">>, limit |-> 1, docset_name |-> None],
      [sim |-> SimMixed, query |-> <<"f">>, limit |-> 2, docset_name |-> None],
      [sim |-> SimHigh, query |-> <<"f">>, limit |-> 1, docset_name |-> Some(<<"beta">>)],
      [sim |-> SimMixed, query |-> <<"z">>, limit |-> 1, docset_name |-> None] }

\* the get_available_docsets call, as a key of returned
ListCall == [tool |-> "list_docsets"]

SearchInit ==
    /\ fs \in FsConfigs
    /\ input \in SearchInputs
    /\ output = None
    /\ clock = 0
    /\ memory_cache = EmptyDict
    /\ disk_cache = EmptyDict
    /\ task = [t \in Tasks |-> Idle]
    /\ written = EmptyDict
    /\ returned = EmptyDict
    /\ last = NoCall
    /\ restarts = 0
    /\ calls = 0

\* what returned held for a call before it ran
Prior(call) == IF call \in DOMAIN returned THEN Some(returned[call]) ELSE None

\* the parameters of a search of the behaviour
SearchParams(include_content, use_fuzzy) ==
    [query |-> input.query, docset_name |-> input.docset_name, limit |-> input.limit,
     include_content |-> include_content, use_fuzzy |-> use_fuzzy]

\* whether a call handed a value to cache.set under key
Wrote(r, key) == \E i \in 1..Len(r.sets) : r.sets[i][1] = key

\* returned after a search with parameters p returned r
ReturnedAfter(p, r) ==
    IF r.listed
    THEN DictSet(DictSet(returned, p, [ret |-> r.ret, ts |-> r.ts, n |-> calls + 1,
                                       cached |-> r.hit \/ Wrote(r, get_cache_key_for(p))]),
                 ListCall, [ret |-> r.catalog, ts |-> r.catalog_ts, n |-> calls + 1,
                            cached |-> TRUE])
    ELSE DictSet(returned, p, [ret |-> r.ret, ts |-> r.ts, n |-> calls + 1,
                               cached |-> r.hit \/ Wrote(r, get_cache_key_for(p))])

\* the state after a search with parameters p returned r
SearchReturns(p, r) ==
    /\ memory_cache' = r.cache.mem
    /\ disk_cache' = r.cache.disk
    /\ written' = IF Wrote(r, get_cache_key_for(p))
                  THEN DictSet(written, get_cache_key_for(p), p) ELSE written
    /\ returned' = ReturnedAfter(p, r)
    /\ last' = [op |-> "search", p |-> p, at |-> clock, ret |-> r.ret, hit |-> r.hit,
                listed |-> r.listed, scanned |-> r.scanned, opened |-> r.opened,
                sets |-> r.sets, catalog |-> r.catalog, entries |-> r.entries,
                prior |-> Prior(p), prior_list |-> Prior(ListCall)]

\* one call of search_docset (lines 765-1058)
SearchDocset(include_content, use_fuzzy) ==
    /\ calls < MaxCalls
    /\ calls' = calls + 1
    /\ SearchReturns(SearchParams(include_content, use_fuzzy),
                     search_docset([mem |-> memory_cache, disk |-> disk_cache], clock, fs,
                                   input.sim, SearchParams(include_content, use_fuzzy)))
    /\ UNCHANGED <<clock, task, restarts, fs, input, output>>

\* the state after get_available_docsets returned r
ListReturns(r) ==
    /\ memory_cache' = r.cache.mem
    /\ disk_cache' = r.cache.disk
    /\ returned' = DictSet(returned, ListCall, [ret |-> r.ret, ts |-> r.ts, n |-> calls + 1,
                                                cached |-> TRUE])
    /\ last' = [op |-> "list", at |-> clock, ret |-> r.ret, scanned |-> r.scanned,
                listed |-> TRUE, sets |-> r.sets, prior_list |-> Prior(ListCall)]

\* one call of get_available_docsets (lines 601-763), as list_docsets makes it
ListDocsets ==
    /\ calls < MaxCalls
    /\ calls' = calls + 1
    /\ ListReturns(get_available_docsets([mem |-> memory_cache, disk |-> disk_cache], clock, fs))
    /\ UNCHANGED <<clock, task, written, restarts, fs, input, output>>

\* time passes, up to one time-to-live after the start
SearchTick == clock < cache_ttl /\ Tick

SearchNext ==
    \/ \E ic \in BOOLEAN, fz \in BOOLEAN : SearchDocset(ic, fz)
    \/ ListDocsets
    \/ SearchTick

SearchSpec == SearchInit /\ [][SearchNext]_vars

----------------------------------------------------------------------------
(* Properties of SearchSpec *)

SearchKey == get_cache_key_for(last.p)

HasContent(records) == \E i \in 1..Len(records) : "content" \in DOMAIN records[i]

\* the lists the two cache tiers hold
CachedLists ==
    {memory_cache[k][1] : k \in DOMAIN memory_cache} \cup
    {disk_cache[k].data : k \in DOMAIN disk_cache}

\* the values the last call handed to cache.set under its own search key
ResultWrites == {last.sets[i][2] : i \in {j \in 1..Len(last.sets) : last.sets[j][1] = SearchKey}}

\* the last call repeats an earlier call of the same parameters whose cache
\* record has not reached the time-to-live
RepeatWithinTtl ==
    /\ last.op = "search"
    /\ last.prior # None
    /\ last.prior[1].cached
    /\ last.at - last.prior[1].ts < cache_ttl

\* C2: the cache key of a search is a function of all five parameters:
\* a search served from the cache is served the record written by a search
\* of the same query, docset_name, limit, include_content and use_fuzzy,
\* and no two searches with different parameters share a key.
C2_KeyFromFiveParameters ==
    /\ last.op = "search" /\ last.hit => written[SearchKey] = last.p
    /\ \A p1, p2 \in DOMAIN returned \ {ListCall} :
           get_cache_key_for(p1) = get_cache_key_for(p2) => p1 = p2

\* C3 as stated: no cached record has a content field, a search with
\* include_content=True never writes the result cache, and a search with
\* include_content=False never returns a record with content.
C3_ContentSearchNeverWrites ==
    /\ \A l \in CachedLists : ~HasContent(l)
    /\ last.op = "search" /\ last.p.include_content => ResultWrites = {}
    /\ last.op = "search" /\ ~last.p.include_content => ~HasContent(last.ret)

\* C3 amended: no cached record has a content field, a search with
\* include_content=True writes nothing but the empty list to the result
\* cache, and a search with include_content=False never returns a record
\* with content.
C3_ContentNeverCached ==
    /\ \A l \in CachedLists : ~HasContent(l)
    /\ last.op = "search" /\ last.p.include_content => ResultWrites \subseteq {<<>>}
    /\ last.op = "search" /\ ~last.p.include_content => ~HasContent(last.ret)

\* a search without content returned records after the same search with
\* content had returned enriched ones
C3_Witness ==
    /\ last.op = "search" /\ ~last.p.include_content /\ last.ret # <<>>
    /\ LET with == [last.p EXCEPT !.include_content = TRUE] IN
       /\ with \in DOMAIN returned
       /\ HasContent(returned[with].ret)
       /\ returned[with].n < calls

\* C4: a search with include_content=False that repeats, within the
\* time-to-live of the cached record, a search of the same parameters that
\* returned a non-empty list R returns R from the cache: the catalog is not
\* asked for, no database is opened and the filesystem is not scanned.
C4_RepeatServedFromCache ==
    RepeatWithinTtl /\ ~last.p.include_content /\ last.prior[1].ret # <<>> =>
        /\ last.hit
        /\ last.ret = last.prior[1].ret
        /\ ~last.listed /\ ~last.scanned /\ last.opened = <<>> /\ last.sets = <<>>

C4_Witness ==
    /\ RepeatWithinTtl /\ ~last.p.include_content /\ last.prior[1].ret # <<>>
    /\ last.at > last.prior[1].ts
    /\ last.hit /\ last.ret = last.prior[1].ret

\* C5: an empty list is cached and served like any other value: a search
\* that repeats, within the time-to-live, a search whose empty result was
\* stored returns it from the cache without opening a database or scanning
\* the filesystem, and get_available_docsets does not rescan while its
\* cached empty catalog is fresh.
C5_EmptyServedFromCache ==
    /\ RepeatWithinTtl /\ ~last.p.include_content /\ last.prior[1].ret = <<>> =>
           last.hit /\ last.ret = <<>> /\ last.opened = <<>> /\ ~last.scanned
    /\ last.op \in {"search", "list"} /\ last.listed /\ last.prior_list # None
           /\ last.prior_list[1].ret = <<>> /\ last.at - last.prior_list[1].ts < cache_ttl =>
           ~last.scanned

\* a database no entry comes from: the connection, the schema inspection,
\* the search-index query or both token queries raise, or no layout is known
Unrecovered(db) ==
    \/ db.fault \in {"connect", "schema", "fallback", "other"}
    \/ "searchIndex" \in db.tables /\ db.fault # "none"
    \/ "searchIndex" \notin db.tables /\ ~({"ZTOKEN", "ZTOKENTYPE"} \subseteq db.tables)

\* a database one of whose statements raises, or of no known layout
Raised(db) == Unrecovered(db) \/ db.fault # "none"

\* the bundles on disk and the cached catalogs, the docsets that satisfy Bad left out
FsWithout(Bad(_)) ==
    [fs EXCEPT !.bundles = SelectSeq(@, LAMBDA b : ~(b.has_db /\ Bad(b.db)))]

CatalogWithout(catalog, Bad(_)) == SelectSeq(catalog, LAMBDA d : ~Bad(DbAt(fs, d.db_path)))

CacheWithout(Bad(_)) ==
    [mem |-> [k \in DOMAIN memory_cache |->
                 IF k = CatalogKey
                 THEN <<CatalogWithout(memory_cache[k][1], Bad), memory_cache[k][2]>>
                 ELSE memory_cache[k]],
     disk |-> [k \in DOMAIN disk_cache |->
                 IF k = CatalogKey
                 THEN [disk_cache[k] EXCEPT !.data = CatalogWithout(@, Bad)]
                 ELSE disk_cache[k]]]

\* what the search just made would have returned without the Bad docsets
Hypothetical(Bad(_)) ==
    search_docset(CacheWithout(Bad), clock, FsWithout(Bad), input.sim, last'.p).ret

StripContent(records) ==
    [i \in 1..Len(records) |-> [f \in DOMAIN records[i] \ {"content"} |-> records[i][f]]]

\* a Bad docset with documents has the name of a docset that is not Bad
NameClash(Bad(_)) ==
    \E i, j \in 1..Len(fs.bundles) :
        LET b == fs.bundles[i]
            g == fs.bundles[j]
        IN  /\ b.has_db /\ Bad(b.db) /\ b.has_docs
            /\ g.has_db /\ ~Bad(g.db)
            /\ DocsetName(b.dir) = DocsetName(g.dir)

TokenDocsets ==
    LET sel == SelectDocsets(last.catalog, last.p.docset_name)
        ds == IF sel = None THEN <<>> ELSE sel[1]
    IN  {ds[i] : i \in {j \in 1..Len(ds) :
            LET db == DbAt(fs, ds[j].db_path) IN
            /\ "searchIndex" \notin db.tables
            /\ {"ZTOKEN", "ZTOKENTYPE"} \subseteq db.tables}}

\* the rows of a database whose name matches the query
Matching(db, query) == {i \in 1..Len(db.rows) : Like(db.rows[i].name, query)}

\* C7: of a token-store docset, when the join succeeds each entry carries
\* the type the join resolved for its row; when the join raises, the
\* fallback query is run and every entry of that docset has type Unknown;
\* no entry comes from a row whose name is null.
C7_TokenStoreTypes ==
    last.op = "search" /\ ~last.hit =>
        \A d \in TokenDocsets :
            LET db == DbAt(fs, d.db_path)
                own == SelectSeq(last.entries, LAMBDA e : e.docset = d.name)
                rec == {i \in 1..Len(last.ret) : last.ret[i].docset = d.name}
            IN  /\ db.fault = "none" =>
                    \A k \in 1..Len(own) : \E i \in Matching(db, last.p.query) :
                        /\ db.rows[i].name = Some(own[k].name)
                        /\ db.rows[i].type # None => own[k].type = db.rows[i].type[1]
                /\ db.fault = "query" =>
                    /\ Matching(db, last.p.query) # {} => own # <<>>
                    /\ \A k \in 1..Len(own) : own[k].type = <<"Unknown">>
                    /\ \A i \in rec : last.ret[i].type = <<"Unknown">>
                /\ db.fault \in {"none", "query"} =>
                    /\ Len(own) <= Cardinality({i \in Matching(db, last.p.query) :
                                                   db.rows[i].name # None})
                    /\ \A k \in 1..Len(own) : own[k].name # <<>>

\* the join raised and the search returned a fallback entry of a typed row
C7_Witness ==
    /\ last.op = "search" /\ ~last.hit
    /\ \E d \in TokenDocsets :
           LET db == DbAt(fs, d.db_path) IN
           /\ db.fault = "query"
           /\ \E i \in 1..Len(last.ret), r \in Matching(db, last.p.query) :
                  /\ last.ret[i].docset = d.name
                  /\ db.rows[r].name = Some(last.ret[i].name)
                  /\ db.rows[r].type # None
                  /\ last.ret[i].type = <<"Unknown">>

----------------------------------------------------------------------------
(* DiscoverySpec: a server is constructed on a directory tree with the      *)
(* variable DASH_DOCSETS_PATH set or unset, and asked for its catalog with  *)
(* an empty cache.  A tree is [dirs, links, bundles]: the directories that  *)
(* exist, the symbolic links (path -> target) and the *.docset directories  *)
(* in the order glob yields them; a path is the sequence of its components. *)

\* Path.parent and Path.name
Parent(path) == SubSeq(path, 1, Len(path) - 1)
BaseName(path) == path[Len(path)]

\* a is a proper ancestor of b
IsAncestor(a, b) == Len(a) < Len(b) /\ SubSeq(b, 1, Len(a)) = a

\* line 578: Path.resolve(): every symbolic link on the path is followed
RECURSIVE Resolve(_, _)
Resolve(links, path) ==
    IF \E k \in 1..Len(path) : SubSeq(path, 1, k) \in DOMAIN links
    THEN LET k == CHOOSE j \in 1..Len(path) :
                      /\ SubSeq(path, 1, j) \in DOMAIN links
                      /\ \A i \in 1..(j - 1) : SubSeq(path, 1, i) \notin DOMAIN links
         IN  Resolve(links, links[SubSeq(path, 1, k)] \o SubSeq(path, k + 1, Len(path)))
    ELSE path

\* line 574: Path.home() / "Library/Application Support/Dash"
DefaultPath == << <<"home">>, <<"Library">>, <<"Application Support">>, <<"Dash">> >>

\* the mutant of AdjustPath: the resolved path is used as it is
AdjustPathNever(tree, resolved) == resolved

\* lines 579-582: a resolved path named DocSets that exists gives way to its parent
AdjustPath(tree, resolved) ==
    IF /\ resolved # <<>>
       /\ BaseName(resolved) = <<"DocSets">>
       /\ (Parent(resolved) \o << <<"DocSets">> >>) \in tree.dirs
    THEN Parent(resolved)
    ELSE resolved

\* lines 569-582: DashMCPServer.__init__, env being os.getenv("DASH_DOCSETS_PATH")
docsets_path(tree, env) ==
    AdjustPath(tree, Resolve(tree.links, IF env # None /\ env[1] # <<>> THEN env[1] ELSE DefaultPath))

\* line 642: docsets_path.glob("**/*.docset")
Glob(tree, root) == SelectSeq(tree.bundles, LAMBDA b : IsAncestor(root, b.dir))

\* what get_available_docsets finds on disk from the root
FilesUnder(tree, root) ==
    [root |-> root, root_exists |-> root \in tree.dirs,
     bundles |-> IF root \in tree.dirs THEN Glob(tree, root) ELSE <<>>]

Dash == << <<"Dash">> >>
DashDocSets == << <<"Dash">>, <<"DocSets">> >>
LinkToDocSets == << <<"LinkedDocSets">> >>
LinkToDash == << <<"LinkedDash">> >>
MissingPath == << <<"Missing">>, <<"DocSets">> >>

\* a bundle of the universe, under a directory
Under(prefix, b) == [b EXCEPT !.dir = prefix \o @]

\* a bundle three directories below DocSets, and one whose name holds the
\* suffix twice
Deep ==
    Bundle(<< <<"DocSets">>, <<"a">>, <<"b">>, <<"c">>, <<"Deep", ".docset">> >>, TRUE, TRUE,
           AlphaDocs, None, {"searchIndex"}, "none", AlphaRows)
Twice ==
    Bundle(<< <<"DocSets">>, <<"Old", ".docset", ".docset">> >>, TRUE, FALSE,
           EmptyDict, None, {"searchIndex"}, "none", AlphaRows)

\* the bundles a tree may hold, in glob order
TreeBundles ==
    << Under(Dash, Alpha("none")), Under(Dash, Deep), Under(Dash, Twice),
       Under(Dash, OtherAlpha("none")), Under(Dash, Gamma), Under(Dash, Delta) >>

\* the subsequence of seq at the positions in keep
Pick(seq, keep) ==
    LET F[i \in 0..Len(seq)] ==
            IF i = 0 THEN <<>>
            ELSE IF i \in keep THEN Append(F[i - 1], seq[i]) ELSE F[i - 1]
    IN  F[Len(seq)]

Trees ==
    {[dirs |-> {Dash, DashDocSets, Dash \o << <<"User Contributed">> >>},
      links |-> [l \in {LinkToDocSets, LinkToDash, DefaultPath} |->
                    IF l = LinkToDocSets THEN DashDocSets ELSE Dash],
      bundles |-> Pick(TreeBundles, keep)] : keep \in SUBSET (1..Len(TreeBundles))}

\* the values of DASH_DOCSETS_PATH: unset, or one of these paths
EnvPaths == {None, Some(DashDocSets), Some(Dash), Some(LinkToDocSets), Some(LinkToDash),
             Some(MissingPath)}

\* fs before the server is constructed
NotConstructed == [constructed |-> FALSE]

DiscoveryInit ==
    /\ input \in [tree : Trees, env : EnvPaths]
    /\ fs = NotConstructed
    /\ output = None
    /\ clock = 0
    /\ memory_cache = EmptyDict
    /\ disk_cache = EmptyDict
    /\ task = [t \in Tasks |-> Idle]
    /\ written = EmptyDict
    /\ returned = EmptyDict
    /\ last = NoCall
    /\ restarts = 0
    /\ calls = 0

\* DashMCPServer() (lines 569-599)
Construct ==
    /\ fs = NotConstructed
    /\ fs' = FilesUnder(input.tree, docsets_path(input.tree, input.env))
    /\ UNCHANGED <<clock, memory_cache, disk_cache, task, written, last, restarts, calls,
                   returned, input, output>>

\* the state after the first get_available_docsets returned r
ListAllReturns(r) ==
    /\ output' = Some(r.ret)
    /\ memory_cache' = r.cache.mem
    /\ disk_cache' = r.cache.disk

\* the first get_available_docsets (lines 601-763)
ListAll ==
    /\ fs # NotConstructed
    /\ output = None
    /\ ListAllReturns(get_available_docsets([mem |-> memory_cache, disk |-> disk_cache],
                                            clock, fs))
    /\ UNCHANGED <<clock, task, written, last, restarts, calls, returned, fs, input>>

\* the process ends and a new one is started with DASH_DOCSETS_PATH = env on
\* the same tree: the cache directory does not depend on the root (lines
\* 400-404), so the files stay; the memory map starts empty (line 403)
RestartWithRoot(env) ==
    /\ fs # NotConstructed
    /\ output # None
    /\ restarts < MaxRestarts
    /\ restarts' = restarts + 1
    /\ input' = [input EXCEPT !.env = env]
    /\ fs' = FilesUnder(input.tree, docsets_path(input.tree, env))
    /\ memory_cache' = EmptyDict
    /\ output' = None
    /\ UNCHANGED <<clock, disk_cache, task, written, last, calls, returned>>

DiscoveryNext ==
    \/ Construct
    \/ ListAll
    \/ \E env \in EnvPaths : RestartWithRoot(env)

DiscoverySpec == DiscoveryInit /\ [][DiscoveryNext]_vars

\* the base name without a trailing .docset
StripSuffix(name) ==
    IF name # <<>> /\ name[Len(name)] = ".docset" THEN SubSeq(name, 1, Len(name) - 1) ELSE name

\* the *.docset directories under the scan root that hold an index file
Indexed ==
    SelectSeq(input.tree.bundles, LAMBDA b : IsAncestor(fs.root, b.dir) /\ b.has_db)

\* C11: with an empty cache the catalog holds exactly one descriptor for
\* each *.docset directory under the scan root, at any depth, that holds
\* Contents/Resources/docSet.dsidx; its name is the directory's base name
\* without the .docset suffix and has_content tells whether Documents exists.
C11_OneDescriptorPerIndexedBundle ==
    output # None /\ fs.root_exists =>
        /\ Len(output[1]) = Len(Indexed)
        /\ \A i \in 1..Len(Indexed) :
               /\ output[1][i].db_path = DbPath(Indexed[i].dir)
               /\ output[1][i].name = StripSuffix(BaseName(Indexed[i].dir))
               /\ output[1][i].has_content = Indexed[i].has_docs

\* the catalog of a server constructed on the tree with env
CatalogFor(tree, env) ==
    get_available_docsets([mem |-> EmptyDict, disk |-> EmptyDict], 0,
                          FilesUnder(tree, docsets_path(tree, env))).ret

\* the DocSets directory, its parent, and symbolic links to either
SymmetricRoots == {Some(DashDocSets), Some(Dash), Some(LinkToDocSets), Some(LinkToDash), None}

\* C12: on the same tree and with an empty cache, a root configured as
\* the DocSets directory, as its parent, or as a symbolic link to either
\* gives the same catalog.
C12_RootSymmetry ==
    output # None /\ input.env \in SymmetricRoots =>
        \A env \in SymmetricRoots : output[1] = CatalogFor(input.tree, env)

\* the catalog of a root given as a link to DocSets holds a bundle outside DocSets
C12_Witness ==
    /\ output # None
    /\ input.env = Some(LinkToDocSets)
    /\ \E i \in 1..Len(output[1]) : ~IsAncestor(DashDocSets, output[1][i].db_path)
    /\ \E i \in 1..Len(output[1]) : IsAncestor(DashDocSets, output[1][i].db_path)

\* C13: when DASH_DOCSETS_PATH is a directory named DocSets or a symbolic
\* link to one, docsets_path after construction is the resolved DocSets
\* directory itself.
C13_RootIsDocSets ==
    /\ fs # NotConstructed
    /\ input.env # None
    /\ BaseName(Resolve(input.tree.links, input.env[1])) = <<"DocSets">>
    /\ Resolve(input.tree.links, input.env[1]) \in input.tree.dirs
    => fs.root = Resolve(input.tree.links, input.env[1])

\* C14: no two descriptors of a catalog have the same name.
C14_NamesUnique ==
    output # None =>
        \A i, j \in 1..Len(output[1]) : output[1][i].name = output[1][j].name => i = j

\* C28: every descriptor of the catalog the current process returns names
\* a bundle under the root this process scans.
C28_OnlyBundlesUnderRoot ==
    output # None =>
        \A i \in 1..Len(output[1]) : IsAncestor(fs.root, output[1][i].db_path)

----------------------------------------------------------------------------
(* ToolSpec: one call of the call_tool handler (lines 1680-1840) with a     *)
(* tool name and arguments drawn from a bounded universe, on a server whose *)
(* root holds the docsets Alpha and Beta and whose cache is empty.          *)

\* Python values of tool arguments; a str is a sequence of symbols
PyInt(n) == [t |-> "int", v |-> n]
PyFloat(f) == [t |-> "float", f |-> f]
PyStr(s) == [t |-> "str", s |-> s]
PyNone == [t |-> "none"]

\* float values: num / den, infinity, not-a-number
Finite(num, den) == [kind |-> "finite", num |-> num, den |-> den]
Inf == [kind |-> "inf"]
NaN == [kind |-> "nan"]

\* float(s) for the strings of the universe
FloatOfStr(s) ==
    CASE s = <<"5.7">> -> Ok(Finite(57, 10))
      [] s = <<"7">>   -> Ok(Finite(7, 1))
      [] s = <<"inf">> -> Ok(Inf)
      [] s = <<"nan">> -> Ok(NaN)
      [] OTHER         -> Raise("ValueError", <<"could not convert string to float">>)

\* float(x)
FloatOf(x) ==
    CASE x.t = "int"   -> Ok(Finite(x.v, 1))
      [] x.t = "float" -> Ok(x.f)
      [] x.t = "str"   -> FloatOfStr(x.s)
      [] OTHER         -> Raise("TypeError", <<"float() argument must be a string or a real number">>)

\* truncation toward zero
Trunc(num, den) == IF num >= 0 THEN num \div den ELSE -((-num) \div den)

\* int(f) for a float f
IntOfFloat(f) ==
    CASE f.kind = "finite" -> Ok(Trunc(f.num, f.den))
      [] f.kind = "inf"    -> Raise("OverflowError", <<"cannot convert float infinity to integer">>)
      [] OTHER             -> Raise("ValueError", <<"cannot convert float NaN to integer">>)

\* int(float(raw_limit))
IntOfFloatOf(f) == IF f.raised # None THEN f ELSE IntOfFloat(f.val[1])

\* lines 1702-1706: except (TypeError, ValueError) around the coercion
LimitOrError(r) ==
    IF r.raised # None /\ (IsInstance(r.raised[1].class, "TypeError")
                           \/ IsInstance(r.raised[1].class, "ValueError"))
    THEN Raise("ValueError", <<"limit must be an integer">>)
    ELSE r

CoerceLimit(raw_limit) == LimitOrError(IntOfFloatOf(FloatOf(raw_limit)))

Max(a, b) == IF a > b THEN a ELSE b

\* line 1708: max(1, min(100, limit))
Clamp(limit) == Max(1, Min(100, limit))

\* arguments.get(key, default)
ArgGet(arguments, key, default) ==
    IF key \in DOMAIN arguments.items THEN arguments.items[key] ELSE default

\* bool(x)
PyTruthy(x) ==
    CASE x.t = "str"   -> x.s # <<>>
      [] x.t = "int"   -> x.v # 0
      [] x.t = "float" -> ~(x.f.kind = "finite" /\ x.f.num = 0)
      [] OTHER         -> FALSE

\* an Optional[str] argument
OptionalStr(x) == IF x.t = "none" THEN None ELSE Some(x.s)

\* a lone surrogate code point, as json.loads('"\udc80"') produces
Surrogate == "U+DC80"

\* line 408: data.encode() raises for a string holding a lone surrogate
Encodes(s) == \A i \in 1..Len(s) : s[i] # Surrogate

\* the outcome of a tool: the text returned or the exception raised, the
\* parameters search_docset was called with, and the cache afterwards
ToolResult(r, searched, c) ==
    [raised |-> r.raised, val |-> r.val, searched |-> searched, cache |-> c]

\* lines 1710-1723: the response of a search that returned
Found(r) == Ok([kind |-> "found", n |-> Len(r.ret), results |-> r.ret])

SearchFound(r, p) == ToolResult(Found(r), Some(p), r.cache)

\* lines 1710-1723: search_docset with the parameters p
SearchCall(c, now, files, sim, p) ==
    IF Encodes(CacheKeyString(p))
    THEN SearchFound(search_docset(c, now, files, sim, p), p)
    ELSE ToolResult(Raise("UnicodeEncodeError",
                          <<"'utf-8' codec can't encode character '\\udc80'">>), Some(p), c)

\* lines 1708-1716: the parameters passed on
ToolSearchParams(arguments, limit) ==
    [query |-> arguments.items["query"].s,
     docset_name |-> OptionalStr(ArgGet(arguments, "docset", PyNone)),
     limit |-> Clamp(limit),
     include_content |-> FALSE, use_fuzzy |-> TRUE]

SearchWithLimit(lim, c, now, files, sim, arguments) ==
    IF lim.raised # None THEN ToolResult(lim, None, c)
    ELSE SearchCall(c, now, files, sim, ToolSearchParams(arguments, lim.val[1]))

\* lines 1694-1723: the search_dash_docs tool
SearchDashDocs(c, now, files, sim, arguments) ==
    IF ~PyTruthy(ArgGet(arguments, "query", PyNone))
    THEN ToolResult(Raise("ValueError", <<"Query parameter is required">>), None, c)
    ELSE SearchWithLimit(CoerceLimit(ArgGet(arguments, "limit", PyInt(20))),
                         c, now, files, sim, arguments)

\* lines 1725-1727: the list_docsets tool
ListJson(r) == ToolResult(Ok([kind |-> "json", value |-> r.ret]), None, r.cache)

\* lines 1476-1675: the tools list_tools announces
available_tools ==
    {"search_dash_docs", "list_docsets", "get_doc_content", "analyze_project_context",
     "get_project_relevant_docs", "get_implementation_guidance", "get_migration_docs",
     "get_latest_api_reference"}

\* the keys a tool reads with arguments[key], in the order it reads them
RequiredKeys(name) ==
    CASE name = "get_doc_content"             -> <<"docset", "path">>
      [] name = "analyze_project_context"     -> <<"project_path">>
      [] name = "get_project_relevant_docs"   -> <<"project_path", "query">>
      [] name = "get_implementation_guidance" -> <<"project_path", "feature_description">>
      [] name = "get_migration_docs"          -> <<"from_version", "to_version", "technology">>
      [] OTHER                                -> <<"technology", "api_name">>

\* arguments[key] for the first key the arguments lack: KeyError.  Every
\* arguments object of the universe lacks one of each tool's keys
MissingKey(name, arguments) ==
    LET req == RequiredKeys(name)
        i == CHOOSE i \in 1..Len(req) :
                 /\ req[i] \notin DOMAIN arguments.items
                 /\ \A j \in 1..(i - 1) : req[j] \in DOMAIN arguments.items
    IN  Raise("KeyError", <<req[i]>>)

\* lines 1682-1826: the body of the try
ToolBody(c, now, files, sim, name, arguments) ==
    IF name \notin available_tools
    THEN ToolResult(Raise("ValueError", <<"Unknown tool: ", name>>), None, c)
    ELSE IF ~arguments.is_dict
    THEN ToolResult(Raise("ValueError", <<"Tool arguments must be an object">>), None, c)
    ELSE CASE name = "search_dash_docs" -> SearchDashDocs(c, now, files, sim, arguments)
           [] name = "list_docsets"     -> ListJson(get_available_docsets(c, now, files))
           [] OTHER                     -> ToolResult(MissingKey(name, arguments), None, c)

GenericMessage == <<"An unexpected error occurred. Please check server logs.">>

\* lines 1828-1840: the except clauses
Respond(r) ==
    IF r.raised = None
    THEN [isError |-> FALSE, text |-> r.val[1], raised |-> None,
          searched |-> r.searched, cache |-> r.cache]
    ELSE IF IsInstance(r.raised[1].class, "ValueError")
    THEN [isError |-> TRUE, text |-> [kind |-> "text", s |-> <<"Error: ">> \o r.raised[1].msg],
          raised |-> r.raised, searched |-> r.searched, cache |-> r.cache]
    ELSE [isError |-> TRUE, text |-> [kind |-> "text", s |-> GenericMessage],
          raised |-> r.raised, searched |-> r.searched, cache |-> r.cache]

\* lines 1680-1840.  raised: the exception the body raised; searched: the
\* parameters search_docset was called with, None if it was not called
call_tool(c, now, files, sim, name, arguments) ==
    Respond(ToolBody(c, now, files, sim, name, arguments))

\* a query of 501 characters, as one symbol
LongWord == "x501"

\* len() of a symbol
CharLen(sym) == IF sym = LongWord THEN 501 ELSE 1

QueryArgs ==
    {None, Some(PyStr(<<>>)), Some(PyStr(<<" ">>)), Some(PyStr(<<"f">>)),
     Some(PyStr(<<LongWord>>)), Some(PyStr(<<Surrogate>>))}

LimitArgs ==
    {None, Some(PyNone),
     Some(PyInt(0)), Some(PyInt(-10)), Some(PyInt(5)), Some(PyInt(100)), Some(PyInt(150)),
     Some(PyFloat(Finite(57, 10))), Some(PyFloat(Finite(-5, 10))), Some(PyFloat(Inf)),
     Some(PyStr(<<"bad">>)), Some(PyStr(<<"5.7">>)), Some(PyStr(<<"7">>)),
     Some(PyStr(<<"inf">>)), Some(PyStr(<<"nan">>))}

DocsetArgs == {None, Some(PyStr(<<"beta">>)), Some(PyStr(<<"gamma">>))}

Item(key, opt) == IF opt = None THEN <<>> ELSE [k \in {key} |-> opt[1]]

\* a JSON object with the keys given, and a JSON array
ArgDict(q, l, d) ==
    [is_dict |-> TRUE, items |-> Item("query", q) @@ Item("limit", l) @@ Item("docset", d)]
ArgList == [is_dict |-> FALSE]

ToolArguments ==
    {ArgDict(q, l, d) : q \in QueryArgs, l \in LimitArgs, d \in DocsetArgs} \cup {ArgList}

ToolNames == available_tools \cup {"no_such_tool"}

ToolFs == [root_exists |-> TRUE, bundles |-> <<Alpha("none"), Beta("none")>>]

ToolInit ==
    /\ input \in [name : ToolNames, arguments : ToolArguments]
    /\ fs = ToolFs
    /\ output = None
    /\ clock = 0
    /\ memory_cache = EmptyDict
    /\ disk_cache = EmptyDict
    /\ task = [t \in Tasks |-> Idle]
    /\ written = EmptyDict
    /\ returned = EmptyDict
    /\ last = NoCall
    /\ restarts = 0
    /\ calls = 0

\* the state after call_tool returned r
ToolReturns(r) ==
    /\ output' = Some([isError |-> r.isError, text |-> r.text, raised |-> r.raised,
                       searched |-> r.searched])
    /\ memory_cache' = r.cache.mem
    /\ disk_cache' = r.cache.disk

\* one call of call_tool (lines 1680-1840)
CallTool ==
    /\ output = None
    /\ ToolReturns(call_tool([mem |-> memory_cache, disk |-> disk_cache], clock, fs, SimHigh,
                             input.name, input.arguments))
    /\ UNCHANGED <<clock, task, written, last, restarts, calls, returned, fs, input>>

ToolNext == CallTool

ToolSpec == ToolInit /\ [][ToolNext]_vars

----------------------------------------------------------------------------
(* Properties of ToolSpec *)

\* strip() of a sequence of symbols: blanks removed at both ends
RECURSIVE Strip(_)
Strip(s) ==
    IF s = <<>> THEN s
    ELSE IF s[1] = " " THEN Strip(SubSeq(s, 2, Len(s)))
    ELSE IF s[Len(s)] = " " THEN Strip(SubSeq(s, 1, Len(s) - 1))
    ELSE s

\* len() of a string
RECURSIVE Chars(_)
Chars(s) == IF s = <<>> THEN 0 ELSE CharLen(s[1]) + Chars(SubSeq(s, 2, Len(s)))

\* the characters line 1876 removes (the quote, the backquote and the
\* backslash by name)
Dangerous == {"<", ">", "quote", "|", "&", ";", "$", "backquote", "backslash"}

\* lines 1869-1877
sanitize_search_query(query) ==
    IF query = <<>> \/ Chars(Strip(query)) = 0
    THEN Raise("ValueError", <<"Query cannot be empty">>)
    ELSE IF Chars(query) > 500
    THEN Raise("ValueError", <<"Query too long (max 500 characters)">>)
    ELSE Ok(Strip(SelectSeq(query, LAMBDA c : c \notin Dangerous)))

\* the error result that carries a validation message
ErrorText(msg) == [kind |-> "text", s |-> <<"Error: ">> \o msg]

\* search_dash_docs was called with an object
SearchToolCalled ==
    output # None /\ input.name = "search_dash_docs" /\ input.arguments.is_dict

\* the query validation of call_tool let the call pass
QueryGiven == SearchToolCalled /\ PyTruthy(ArgGet(input.arguments, "query", PyNone))

RawLimit == ArgGet(input.arguments, "limit", PyInt(20))

\* the integer a limit value stands for, truncated toward zero; None when
\* it stands for none
LimitValue(x) ==
    CASE x.t = "int" -> Some(x.v)
      [] x.t = "float" /\ x.f.kind = "finite" -> Some(Trunc(x.f.num, x.f.den))
      [] x.t = "str" /\ x.s = <<"5.7">> -> Some(5)
      [] x.t = "str" /\ x.s = <<"7">> -> Some(7)
      [] OTHER -> None

\* C15: search_dash_docs passes search_docset the limit truncated toward
\* zero and clamped into 1..100 (20 when absent), and a limit that stands
\* for no integer gives the error 'limit must be an integer' and no search.
C15_LimitClampedOrRejected ==
    QueryGiven =>
        IF LimitValue(RawLimit) # None
        THEN /\ output[1].searched # None
             /\ output[1].searched[1].limit =
                    (IF LimitValue(RawLimit)[1] < 1 THEN 1
                     ELSE IF LimitValue(RawLimit)[1] > 100 THEN 100
                     ELSE LimitValue(RawLimit)[1])
        ELSE /\ output[1].searched = None
             /\ output[1].isError
             /\ output[1].text = ErrorText(<<"limit must be an integer">>)

\* C16: search_docset is only called with a query that sanitization accepts
\* and leaves non-empty and at most 500 characters long; a missing, empty,
\* blank or over-long query gives an error result and no search.
C16_QueryValidated ==
    SearchToolCalled =>
        /\ output[1].searched # None =>
               /\ sanitize_search_query(output[1].searched[1].query).raised = None
               /\ Chars(sanitize_search_query(output[1].searched[1].query).val[1]) \in 1..500
        /\ ("query" \notin DOMAIN input.arguments.items
            \/ sanitize_search_query(input.arguments.items["query"].s).raised # None) =>
               output[1].isError /\ output[1].searched = None

\* the catalog of the files, read with an empty cache
CatalogOf(files) ==
    get_available_docsets([mem |-> EmptyDict, disk |-> EmptyDict], 0, files).ret

\* the names of the docsets discovered under the root
DiscoveredNames ==
    {Lower(CatalogOf(fs)[i].name) : i \in 1..Len(CatalogOf(fs))}

\* the arguments name a docset that was not discovered
UnknownDocset ==
    /\ "docset" \in DOMAIN input.arguments.items
    /\ input.arguments.items["docset"].s # <<>>
    /\ Lower(input.arguments.items["docset"].s) \notin DiscoveredNames

\* C17: search_dash_docs with a docset name that matches no discovered
\* docset returns an error result.
C17_UnknownDocsetIsError ==
    SearchToolCalled /\ UnknownDocset => output[1].isError

\* the messages of the validation errors call_tool raises itself
ValidationMessages ==
    {<<"Unknown tool: ", input.name>>, <<"Tool arguments must be an object">>,
     <<"Query parameter is required">>, <<"limit must be an integer">>}

\* C18: an unknown tool, arguments that are no object, a missing query and
\* a bad limit give an error result with the validation message; every
\* other exception gives the generic message.
C18_ValidationOrGeneric ==
    output # None =>
        /\ input.name \notin available_tools =>
               output[1].text = ErrorText(<<"Unknown tool: ", input.name>>)
        /\ input.name \in available_tools /\ ~input.arguments.is_dict =>
               output[1].text = ErrorText(<<"Tool arguments must be an object">>)
        /\ SearchToolCalled /\ ~QueryGiven =>
               output[1].text = ErrorText(<<"Query parameter is required">>)
        /\ QueryGiven /\ LimitValue(RawLimit) = None =>
               output[1].text = ErrorText(<<"limit must be an integer">>)
        /\ output[1].raised # None /\ output[1].raised[1].msg \notin ValidationMessages =>
               output[1].isError /\ output[1].text = [kind |-> "text", s |-> GenericMessage]

----------------------------------------------------------------------------
(* The cached catalog (SearchSpec) *)

\* the fresh record under 'available_docsets': the one of the memory map,
\* else the one of the file
FreshCatalog ==
    IF CatalogKey \in DOMAIN memory_cache /\ clock - memory_cache[CatalogKey][2] < cache_ttl
    THEN Some(memory_cache[CatalogKey][1])
    ELSE IF CatalogKey \in DOMAIN disk_cache /\ disk_cache[CatalogKey] # Torn
            /\ clock - disk_cache[CatalogKey].timestamp < cache_ttl
         THEN Some(disk_cache[CatalogKey].data)
         ELSE None

\* get_available_docsets called now, the filesystem having become files
CatalogOn(files) ==
    get_available_docsets([mem |-> memory_cache, disk |-> disk_cache], clock, files)

\* C22: while a fresh non-empty catalog is cached, get_available_docsets
\* returns that catalog whatever the filesystem has become, and neither
\* scans the root nor stores a record.
C22_CachedCatalogVerbatim ==
    Truthy(FreshCatalog) =>
        \A files \in FsConfigs :
            /\ CatalogOn(files).ret = FreshCatalog[1]
            /\ ~CatalogOn(files).scanned
            /\ CatalogOn(files).sets = <<>>

\* half a time-to-live after the catalog was cached, it is returned although
\* the root has been removed, and although it holds other bundles
C22_Witness ==
    /\ clock > 0
    /\ Truthy(FreshCatalog)
    /\ fs.root_exists
    /\ CatalogOn([root_exists |-> FALSE, bundles |-> <<>>]).ret = FreshCatalog[1]
    /\ \E files \in FsConfigs :
           /\ files.root_exists
           /\ Discover(files.bundles) # FreshCatalog[1]
           /\ CatalogOn(files).ret = FreshCatalog[1]

----------------------------------------------------------------------------
(* Database handles (SearchSpec) *)

\* C21: when a search ends, every database handle it opened was closed,
\* whatever was raised while the docset was queried.
C21_HandlesClosed ==
    last.op = "search" =>
        \A i \in 1..Len(last.opened) : HandleAfter(DbAt(fs, last.opened[i])) # "open"

----------------------------------------------------------------------------
(* Row caps and truncation (SearchSpec) *)

\* the docsets the last search ran on
SelectedDocsets ==
    IF SelectDocsets(last.catalog, last.p.docset_name) = None THEN <<>>
    ELSE SelectDocsets(last.catalog, last.p.docset_name)[1]

\* what a docset contributes under a row cap of 2 x limit
TwiceLimitRows(db, query, limit) ==
    IF Unrecovered(db) THEN 0 ELSE Min(2 * limit, Cardinality(Matching(db, query)))

\* the same, summed over the docsets of one name
RECURSIVE SumTwiceLimitRows(_, _)
SumTwiceLimitRows(docsets, name) ==
    IF docsets = <<>> THEN 0
    ELSE (IF Head(docsets).name = name
          THEN TwiceLimitRows(DbAt(fs, Head(docsets).db_path), last.p.query, last.p.limit)
          ELSE 0) + SumTwiceLimitRows(Tail(docsets), name)

\* C24: each docset a search queries contributes min(2 x limit, its
\* matching rows) entries, whichever of the three queries gave them.
C24_RowCapTwiceLimit ==
    last.op = "search" /\ ~last.hit =>
        \A i \in 1..Len(SelectedDocsets) :
            Len(SelectSeq(last.entries, LAMBDA e : e.docset = SelectedDocsets[i].name))
                = SumTwiceLimitRows(SelectedDocsets, SelectedDocsets[i].name)

\* the ranked list of the last search, by the mode it ran in
RankedList ==
    IF last.p.use_fuzzy
    THEN fuzzy_search(last.p.query, last.entries, DefaultThreshold,
             [x \in {Searchable(last.entries[i]) : i \in 1..Len(last.entries)} |->
                 input.sim[x]]).results
    ELSE rank_results(last.entries, last.p.query)

\* C25: a search returns at most limit records, by non-increasing score,
\* and a search that ran returns the first limit entries of its ranked list.
C25_FirstLimitOfRanked ==
    last.op = "search" =>
        /\ Len(last.ret) <= last.p.limit
        /\ \A i \in 1..(Len(last.ret) - 1) : last.ret[i].score >= last.ret[i + 1].score
        /\ ~last.hit =>
               StripContent(last.ret) =
                   [i \in 1..Min(last.p.limit, Len(RankedList)) |->
                       ResultRecord(RankedList[i])]

\* a search cut a longer ranked list to two records of different score
C25_Witness ==
    /\ last.op = "search"
    /\ ~last.hit
    /\ Len(RankedList) > last.p.limit
    /\ Len(last.ret) = 2
    /\ last.ret[1].score > last.ret[2].score

----------------------------------------------------------------------------
(* ProjectSpec: calls of get_relevant_documentation (lines 1283-1366) on a  *)
(* server whose root holds the docsets Python and Beta.  A list that        *)
(* search_docset returns without content is the list object the memory map  *)
(* holds under the search key: cache.set stored it (line 1045) or cache.get  *)
(* returned it (lines 416, 432).                                            *)

\* lines 1290-1310: the docsets of the language and the framework
LanguageDocsets(context) ==
    IF context.language = Some(<<"javascript">>)
    THEN << <<"javascript">>, <<"nodejs">>, <<"mdn">> >> \o
         (CASE context.framework = Some(<<"react">>)   -> << <<"react">>, <<"react_native">> >>
            [] context.framework = Some(<<"vue">>)     -> << <<"vue">> >>
            [] context.framework = Some(<<"angular">>) -> << <<"angular">> >>
            [] context.framework = Some(<<"nextjs">>)  -> << <<"react">>, <<"nextjs">> >>
            [] OTHER -> <<>>)
    ELSE IF context.language = Some(<<"python">>)
    THEN << <<"python">>, <<"python_3">> >> \o
         (CASE context.framework = Some(<<"django">>)  -> << <<"django">> >>
            [] context.framework = Some(<<"flask">>)   -> << <<"flask">> >>
            [] context.framework = Some(<<"fastapi">>) -> << <<"fastapi">> >>
            [] OTHER -> <<>>)
    ELSE <<>>

\* lines 1318-1328: dep_mapping
dep_mapping(dep_lower) ==
    CASE dep_lower = <<"lodash">>     -> << <<"lodash">> >>
      [] dep_lower = <<"axios">>      -> << <<"axios">> >>
      [] dep_lower = <<"express">>    -> << <<"express">>, <<"nodejs">> >>
      [] dep_lower = <<"mongoose">>   -> << <<"mongoose">> >>
      [] dep_lower = <<"pandas">>     -> << <<"pandas">> >>
      [] dep_lower = <<"numpy">>      -> << <<"numpy">> >>
      [] dep_lower = <<"requests">>   -> << <<"python_requests">> >>
      [] dep_lower = <<"tensorflow">> -> << <<"tensorflow">> >>
      [] dep_lower = <<"pytorch">>    -> << <<"pytorch">> >>
      [] OTHER -> <<>>

\* lines 1313-1331: the docsets of the dependencies
RECURSIVE DependencyDocsets(_)
DependencyDocsets(deps) ==
    IF deps = <<>> THEN <<>>
    ELSE dep_mapping(Lower(Head(deps))) \o DependencyDocsets(Tail(deps))

\* lines 1288-1331: relevant_docsets
RelevantDocsets(context) ==
    LanguageDocsets(context) \o
    (IF context.dependencies # None THEN DependencyDocsets(context.dependencies[1]) ELSE <<>>)

\* lines 1351-1355: the boost, written into the records of the list
Boost(records) ==
    [i \in 1..Len(records) |->
        [f \in DOMAIN records[i] \cup {"project_relevance"} |->
            IF f = "score" THEN records[i].score + 20
            ELSE IF f = "project_relevance" THEN TRUE
            ELSE records[i][f]]]

\* the memory map after the list held under key was changed in place
InPlace(c, key, records) ==
    IF key \in DOMAIN c.mem
    THEN [c EXCEPT !.mem = DictSet(c.mem, key, <<records, c.mem[key][2]>>)]
    ELSE c

\* whether the list a search returned is the one the memory map holds
Shared(r, p) == ~p.include_content /\ r.ret # <<>>

\* lines 1340-1346: the parameters of the search in one relevant docset
RelevantParams(query, docset, include_latest) ==
    [query |-> query, docset_name |-> Some(docset), limit |-> 10,
     include_content |-> include_latest, use_fuzzy |-> TRUE]

\* lines 1347-1355: the records of one search are boosted and collected
Boosted(st, r, p) ==
    [results |-> st.results \o Boost(r.ret),
     cache |-> IF Shared(r, p) THEN InPlace(r.cache, get_cache_key_for(p), Boost(r.ret))
               ELSE r.cache]

\* lines 1337-1357: the loop over relevant_docsets; st holds all_results
\* and the cache
RECURSIVE SearchRelevant(_, _, _, _, _, _, _, _)
SearchRelevant(docsets, names, st, now, files, sim, query, include_latest) ==
    IF docsets = <<>> THEN st
    ELSE IF Lower(Head(docsets)) \in names
    THEN SearchRelevant(Tail(docsets), names,
             Boosted(st, search_docset(st.cache, now, files, sim,
                                       RelevantParams(query, Head(docsets), include_latest)),
                     RelevantParams(query, Head(docsets), include_latest)),
             now, files, sim, query, include_latest)
    ELSE SearchRelevant(Tail(docsets), names, st, now, files, sim, query, include_latest)

\* lines 1360-1362: the parameters of the general search
GeneralParams(query, include_latest) ==
    [query |-> query, docset_name |-> None, limit |-> 15,
     include_content |-> include_latest, use_fuzzy |-> TRUE]

\* lines 1360-1366 after the general search: the list is sorted in place
GeneralSorted(r, p) ==
    [ret |-> Take(SortedByScore(r.ret), 20),
     cache |-> IF Shared(r, p) THEN InPlace(r.cache, get_cache_key_for(p), SortedByScore(r.ret))
               ELSE r.cache]

\* lines 1359-1366: the general search when nothing was found, the sort and
\* the cut to 20
RelevantOrGeneral(st, now, files, sim, query, include_latest) ==
    IF st.results = <<>>
    THEN GeneralSorted(search_docset(st.cache, now, files, sim,
                                     GeneralParams(query, include_latest)),
                       GeneralParams(query, include_latest))
    ELSE [ret |-> Take(SortedByScore(st.results), 20), cache |-> st.cache]

\* lines 1334-1366, cat being what get_available_docsets returned
RelevantAfterCatalog(cat, context, now, files, sim, query, include_latest) ==
    RelevantOrGeneral(
        SearchRelevant(RelevantDocsets(context),
                       {Lower(cat.ret[i].name) : i \in 1..Len(cat.ret)},
                       [results |-> <<>>, cache |-> cat.cache],
                       now, files, sim, query, include_latest),
        now, files, sim, query, include_latest)

\* lines 1283-1366
get_relevant_documentation(c, now, files, sim, query, context, include_latest) ==
    RelevantAfterCatalog(get_available_docsets(c, now, files), context, now, files, sim,
                         query, include_latest)

\* the search-index docset Python
PythonDocset ==
    Bundle(<< <<"DocSets">>, <<"Python", ".docset">> >>, TRUE, TRUE, AlphaDocs,
           None, {"searchIndex"}, "none", AlphaRows)

ProjectFs == [root_exists |-> TRUE, bundles |-> <<PythonDocset, Beta("none")>>]

ProjectSearchables ==
    {Searchable(DocEntry(n, t, <<>>, d, None)) :
        n \in {<<"f">>, <<"F", "o">>, <<"o", "f">>, <<"f", "o">>},
        t \in {<<"Function">>, <<"Guide">>, <<"Class">>, <<"Unknown">>},
        d \in {<<"Python">>, <<"Beta">>}}

ProjectSims ==
    {[x \in ProjectSearchables |-> 90],
     [x \in ProjectSearchables |-> IF x[1] = "o" THEN 50 ELSE IF Len(x) > 5 THEN 60 ELSE 90]}

\* the project contexts drawn
ProjectContexts ==
    [language : {None, Some(<<"python">>), Some(<<"javascript">>)},
     framework : {None, Some(<<"django">>)},
     dependencies : {None, Some(<< <<"Requests">> >>), Some(<< <<"express">> >>)}]

ProjectInit ==
    /\ input \in [sim : ProjectSims, query : {<<"f">>, <<"z">>}, context : ProjectContexts]
    /\ fs = ProjectFs
    /\ output = None
    /\ clock = 0
    /\ memory_cache = EmptyDict
    /\ disk_cache = EmptyDict
    /\ task = [t \in Tasks |-> Idle]
    /\ written = EmptyDict
    /\ returned = EmptyDict
    /\ last = NoCall
    /\ restarts = 0
    /\ calls = 0

\* the state after get_relevant_documentation returned r
RelevantReturns(r, include_latest) ==
    /\ memory_cache' = r.cache.mem
    /\ disk_cache' = r.cache.disk
    /\ last' = [op |-> "relevant", include_latest |-> include_latest, ret |-> r.ret,
                at |-> clock, n |-> calls + 1]

\* one call of get_relevant_documentation (lines 1283-1366)
GetRelevantDocumentation(include_latest) ==
    /\ calls < MaxCalls
    /\ calls' = calls + 1
    /\ RelevantReturns(get_relevant_documentation([mem |-> memory_cache, disk |-> disk_cache],
                           clock, fs, input.sim, input.query, input.context, include_latest),
                       include_latest)
    /\ UNCHANGED <<clock, task, written, restarts, returned, fs, input, output>>

ProjectNext ==
    \/ \E include_latest \in BOOLEAN : GetRelevantDocumentation(include_latest)
    \/ SearchTick

ProjectSpec == ProjectInit /\ [][ProjectNext]_vars

\* the ranking score of a record: the similarity of its entry
RankingScore(record) ==
    input.sim[record.name \o <<" ">> \o record.type \o <<" ">> \o record.docset]

\* the lists the memory map and the files hold under the same key and timestamp
SameRecord(k) ==
    k \in DOMAIN disk_cache /\ disk_cache[k] # Torn
    /\ disk_cache[k].timestamp = memory_cache[k][2]

\* C26: the lists in the memory map are the ones cache.set stored, which
\* the files hold as well, and every record get_relevant_documentation
\* returns without content from a project docset has its ranking score
\* plus 20, on every call.
C26_CachedRecordsUnchanged ==
    /\ \A k \in DOMAIN memory_cache : SameRecord(k) => memory_cache[k][1] = disk_cache[k].data
    /\ last.op = "relevant" /\ ~last.include_latest =>
           \A i \in 1..Len(last.ret) :
               "project_relevance" \in DOMAIN last.ret[i] =>
                   last.ret[i].score = RankingScore(last.ret[i]) + 20

----------------------------------------------------------------------------
(* Shutdown: _cancel_task, amain (ShutdownSpec)                             *)
(*                                                                          *)
(* task.server is the asyncio task running server.run, task.amain the       *)
(* coroutine that awaits it: amain itself, or, when input.entry is          *)
(* "cancel_task", a coroutine that calls _cancel_task on the running task   *)
(* as test_cancel_task_finishes does.  An asyncio task that is cancelled    *)
(* while it awaits another task hands the request to that task, and is      *)
(* resumed only when that task is done.                                     *)

\* how many awaits the finally blocks of server.run may hold, and how many
\* cancellation requests the environment sends
MaxCleanup == 2
MaxCancels == 2

Running(left) == [pc |-> "running", must_cancel |-> FALSE, result |-> None, left |-> left]

\* asyncio.Task.cancel() on the server task: a done task ignores it
Cancel(t) == IF t.pc = "done" THEN t ELSE [t EXCEPT !.must_cancel = TRUE]

\* what `await task` gives the awaiting coroutine when it is resumed: its
\* own pending cancellation, else the result or the exception of the task
Await(waiter, t) ==
    IF waiter.must_cancel THEN Raise("CancelledError", <<>>) ELSE t.result[1]

\* a with block that suppresses nothing
SuppressNothing(r) == r

\* contextlib.suppress(CancelledError, KeyboardInterrupt)
Suppress(r) ==
    IF r.raised # None /\ \E c \in {"CancelledError", "KeyboardInterrupt"} :
                              IsInstance(r.raised[1].class, c)
    THEN Ok(None)
    ELSE r

\* the with block of _cancel_task, entered when the awaited task is done
SuppressedAwait(waiter, t) == Suppress(Await(waiter, t))

\* which except clause of amain takes what `await server_task` raised
Handler(r) ==
    CASE r.raised = None -> "none"
      [] r.raised # None /\ (IsInstance(r.raised[1].class, "CancelledError")
                             \/ IsInstance(r.raised[1].class, "KeyboardInterrupt")) -> "interrupt"
      [] r.raised # None /\ IsInstance(r.raised[1].class, "Exception") -> "error"
      [] OTHER -> "none"

\* the exception in flight when an except clause of amain is left: the one
\* _cancel_task raised, else the one the bare `raise` raises again
InFlight(handler, awaited, cancelled) ==
    CASE handler = "none"      -> awaited
      [] cancelled.raised # None -> cancelled
      [] handler = "error"     -> awaited
      [] OTHER                 -> Ok(None)

\* `return` inside `finally`: the exception in flight is discarded
FinallyReturn(inflight) == Ok(None)

\* the log lines of amain
LogLines(handler, interactive) ==
    (IF handler = "interrupt" THEN <<<<"interrupt", interactive>>>>
     ELSE IF handler = "error" THEN <<<<"error", interactive>>>>
     ELSE <<>>)
    \o <<<<"stopped", interactive>>>>

NotShutDown == [op |-> "none"]

ShutdownInit ==
    /\ input \in {[entry |-> e, interactive |-> i, cleanup |-> n] :
                      e \in {"amain", "cancel_task"}, i \in BOOLEAN, n \in 0..MaxCleanup}
    /\ task = [server |-> Running(input.cleanup),
               amain  |-> [pc |-> IF input.entry = "amain" THEN "await_server" ELSE "call",
                           must_cancel |-> FALSE, result |-> None]]
    /\ last = NotShutDown
    /\ output = <<>>
    /\ calls = 0
    /\ clock = 0
    /\ memory_cache = EmptyDict
    /\ disk_cache = EmptyDict
    /\ written = {}
    /\ restarts = 0
    /\ returned = EmptyDict
    /\ fs = 0

\* server.run returns, or raises, by itself: its finally blocks start
ServerExit(r) ==
    /\ task.server.pc = "running"
    /\ ~task.server.must_cancel
    /\ task' = [task EXCEPT !.server.pc = "cleanup", !.server.result = Some(r)]
    /\ UNCHANGED <<clock, memory_cache, disk_cache, written, last, restarts, calls, returned,
                   fs, input, output>>

\* the event loop throws CancelledError into server.run at its await
ServerCancelled ==
    /\ task.server.pc = "running"
    /\ task.server.must_cancel
    /\ task' = [task EXCEPT !.server.pc = "cleanup", !.server.must_cancel = FALSE,
                            !.server.result = Some(Raise("CancelledError", <<>>))]
    /\ UNCHANGED <<clock, memory_cache, disk_cache, written, last, restarts, calls, returned,
                   fs, input, output>>

\* one await of the finally blocks; a cancellation that arrives there ends
\* them with CancelledError; after the last one the task is done
ServerCleanup ==
    /\ task.server.pc = "cleanup"
    /\ task' = IF task.server.left = 0
               THEN [task EXCEPT !.server.pc = "done", !.server.must_cancel = FALSE]
               ELSE IF task.server.must_cancel
               THEN [task EXCEPT !.server.left = 0, !.server.must_cancel = FALSE,
                                 !.server.result = Some(Raise("CancelledError", <<>>))]
               ELSE [task EXCEPT !.server.left = @ - 1]
    /\ UNCHANGED <<clock, memory_cache, disk_cache, written, last, restarts, calls, returned,
                   fs, input, output>>

\* the runner cancels the awaiting coroutine (asyncio.run on SIGINT, or
\* task.cancel() in test_main_handles_cancelled): the request goes to the
\* task it awaits, or stays pending when that task is already done
CancelMain ==
    /\ calls < MaxCancels
    /\ task.amain.pc \in {"await_server", "cancel_wait"}
    /\ task' = IF task.server.pc = "done"
               THEN [task EXCEPT !.amain.must_cancel = TRUE]
               ELSE [task EXCEPT !.server = Cancel(task.server)]
    /\ calls' = calls + 1
    /\ UNCHANGED <<clock, memory_cache, disk_cache, written, last, restarts, returned,
                   fs, input, output>>

\* somebody cancels the server task itself
CancelServer ==
    /\ calls < MaxCancels
    /\ task.server.pc # "done"
    /\ task' = [task EXCEPT !.server = Cancel(task.server)]
    /\ calls' = calls + 1
    /\ UNCHANGED <<clock, memory_cache, disk_cache, written, last, restarts, returned,
                   fs, input, output>>

\* amain from the point `await server_task` is resumed to its return: the
\* server task is done, so task.cancel() changes nothing and `await task`
\* inside _cancel_task does not suspend
amain(waiter, t, interactive) ==
    LET awaited   == Await(waiter, t)
        handler   == Handler(awaited)
        cancelled == IF handler = "none" THEN None
                     ELSE Some(SuppressedAwait([waiter EXCEPT !.must_cancel = FALSE], Cancel(t)))
        inflight  == InFlight(handler, awaited,
                              IF cancelled = None THEN Ok(None) ELSE cancelled[1])
    IN  [op |-> "amain", awaited |-> awaited, handler |-> handler,
         cancel_task |-> cancelled, server_pc |-> t.pc, server_left |-> t.left,
         inflight |-> inflight, ret |-> FinallyReturn(inflight),
         log |-> LogLines(handler, interactive)]

AmainResume ==
    /\ task.amain.pc = "await_server"
    /\ task.server.pc = "done"
    /\ last' = amain(task.amain, task.server, input.interactive)
    /\ task' = [task EXCEPT !.amain.pc = "done", !.amain.must_cancel = FALSE,
                            !.amain.result = Some(last'.ret)]
    /\ output' = output \o last'.log
    /\ UNCHANGED <<clock, memory_cache, disk_cache, written, restarts, calls, returned,
                   fs, input>>

\* _cancel_task(task) called on the server task: task.cancel(), then
\* `await task`, which suspends the caller unless the task is done
CancelTaskCall ==
    /\ task.amain.pc = "call"
    /\ task' = [task EXCEPT !.server = Cancel(task.server), !.amain.pc = "cancel_wait"]
    /\ UNCHANGED <<clock, memory_cache, disk_cache, written, last, restarts, calls, returned,
                   fs, input, output>>

\* may the caller of _cancel_task go on
Resumable(t) == t.pc = "done"

CancelTaskReturn ==
    /\ task.amain.pc = "cancel_wait"
    /\ Resumable(task.server)
    /\ last' = [op |-> "cancel_task", server_pc |-> task.server.pc,
                server_left |-> task.server.left,
                cancel_task |-> Some(SuppressedAwait(task.amain, task.server))]
    /\ task' = [task EXCEPT !.amain.pc = "done", !.amain.must_cancel = FALSE,
                            !.amain.result = last'.cancel_task]
    /\ UNCHANGED <<clock, memory_cache, disk_cache, written, restarts, calls, returned,
                   fs, input, output>>

ServerOutcomes ==
    {Ok(None), Raise("KeyboardInterrupt", <<>>), Raise("RuntimeError", <<"boom">>)}

ShutdownNext ==
    \/ \E r \in ServerOutcomes : ServerExit(r)
    \/ ServerCancelled
    \/ ServerCleanup
    \/ CancelMain
    \/ CancelServer
    \/ AmainResume
    \/ CancelTaskCall
    \/ CancelTaskReturn

ShutdownSpec == ShutdownInit /\ [][ShutdownNext]_vars


\* the server task ended by cancellation or by KeyboardInterrupt
Interrupted(t) ==
    /\ t.pc = "done"
    /\ t.result[1].raised # None
    /\ t.result[1].raised[1].class \in {"CancelledError", "KeyboardInterrupt"}

\* C23: _cancel_task returns only when the server task is done and its
\* finally blocks are over; when the task was cancelled or raised
\* KeyboardInterrupt, _cancel_task raises nothing, and amain has taken its
\* interrupt clause, called _cancel_task and returned None.
C23_CleanShutdown ==
    /\ last.op \in {"amain", "cancel_task"} /\ last.cancel_task # None =>
           last.server_pc = "done" /\ last.server_left = 0
    /\ last.op = "cancel_task" /\ Interrupted(task.server) =>
           last.cancel_task = Some(Ok(None))
    /\ last.op = "amain" /\ Interrupted(task.server) =>
           /\ last.handler = "interrupt"
           /\ last.cancel_task = Some(Ok(None))
           /\ task.amain.result = Some(Ok(None))

\* amain has returned after a cancellation that reached the server task
\* while its finally blocks had awaits to run
C23_Witness ==
    /\ last.op = "amain"
    /\ input.cleanup > 0
    /\ task.server.result = Some(Raise("CancelledError", <<>>))
    /\ task.amain.result = Some(Ok(None))

\* C30: when server.run raised an exception other than CancelledError and
\* KeyboardInterrupt and amain received it, amain calls _cancel_task and
\* then ends by raising that exception.
C30_ErrorReraised ==
    last.op = "amain" /\ last.handler = "error" =>
        /\ last.cancel_task # None
        /\ task.amain.result = Some(last.awaited)

====
